---- MODULE Spec2Model ----
\* The SANA text tokenizer (SanaVocab): vocabulary loading from GGUF metadata,
\* the SentencePiece-style greedy merge (SPM), the GPT-2 style pair merge (BPE)
\* and the bos/eos decoration, as a state machine over one shared store and a
\* set of callers, each with its call-local state.
\*
\* Strings are sequences of bytes (0..255).  Offsets, symbol indices and token
\* ids keep the 0-based values of the source; sequences are 1-based, so the
\* element at offset k is s[k + 1].
EXTENDS Integers, Sequences, FiniteSets, TLC

VARIABLES
    type,            \* SanaVocab::type, "SPM" or "BPE"
    token_to_id,     \* std::map<std::string,int32_t>: function, DOMAIN = keys
    id_to_token,     \* std::vector<std::string>
    id_to_score,     \* std::vector<float> (scores are only compared: integers)
    bpe_ranks,       \* std::map<pair<string,string>,int>: function on pairs
    bpe_merges,      \* std::vector<std::string>
    bos_token_id,
    eos_token_id,
    pad_token_id,
    unk_token_id,
    loads,           \* number of load_from_gguf calls made so far
    load_ok,         \* return value of the last load_from_gguf call
    load_fault,      \* the last load_from_gguf call did not return: a read
                     \* past the end of the scores array ended the process
    ctx_gguf,        \* the metadata handed to the last load_from_gguf call
    calls,           \* per caller: position in tokenize and its local variables
    arg_s,           \* utf8_len_char called on its own: the byte at s[0]
    arg_max_len,     \*   its max_len argument
    ret_len,         \*   its return value, -1 before the call
    pre_call,        \* bpe_pre_tokenize_gpt2 called on its own: text and result
    cache,           \* a ChromaCacheState object
    cache_call,      \* the last member function called on it, with its result
    sched,           \* a SanaSCMScheduler object
    sched_call       \* the last member function called on it, with its result

storeVars == <<type, token_to_id, id_to_token, id_to_score, bpe_ranks, bpe_merges,
               bos_token_id, eos_token_id, pad_token_id, unk_token_id>>
vars == <<type, token_to_id, id_to_token, id_to_score, bpe_ranks, bpe_merges,
          bos_token_id, eos_token_id, pad_token_id, unk_token_id,
          loads, load_ok, load_fault, ctx_gguf, calls, arg_s, arg_max_len, ret_len,
          pre_call, cache, cache_call, sched, sched_call>>
utf8Vars == <<arg_s, arg_max_len, ret_len>>
tokVars == <<storeVars, loads, load_ok, load_fault, ctx_gguf, calls>>
cacheVars == <<cache, cache_call>>
schedVars == <<sched, sched_call>>
unitVars == <<utf8Vars, pre_call, cacheVars, schedVars>>

\* The store as one value, as the const member functions see it through `this`.
vocab ==
    [type |-> type, token_to_id |-> token_to_id, id_to_token |-> id_to_token,
     id_to_score |-> id_to_score, bpe_ranks |-> bpe_ranks, bpe_merges |-> bpe_merges,
     bos_token_id |-> bos_token_id, eos_token_id |-> eos_token_id,
     pad_token_id |-> pad_token_id, unk_token_id |-> unk_token_id]

-----------------------------------------------------------------------------
\* Bounds of the model.

MaxTextLen == 4      \* longest text handed to tokenize in Spec
NumCallers == 2      \* concurrent callers in SpecConc
MaxLoads == 2        \* load_from_gguf calls on one store in SpecReload
MaxSteps == 3        \* largest n_inference_steps handed to set_timesteps
MaxInterval == 2     \* largest config.interval handed to ChromaCacheState::init
MaxLenArg == 5       \* largest max_len handed to utf8_len_char in SpecUtf8

-----------------------------------------------------------------------------
\* Integer conversions and string helpers.

\* Numbers are kept inside the signed 32-bit range.  An unsigned 32-bit value
\* is the pair of its 16-bit halves [hi, lo].
U32(hi, lo) == [hi |-> hi, lo |-> lo]

\* int32_t member = uint32_t value: values from 2^31 on wrap to negative ones
ToInt32(u) ==
    IF u.hi >= 32768 THEN (u.hi - 65536) * 65536 + u.lo ELSE u.hi * 65536 + u.lo

\* (uint32_t)x < n for an int32_t x and a container size n: a negative x
\* converts to at least 2^31, above every size
UintLess(x, n) == x >= 0 /\ x < n

\* s.substr(pos, n) / std::string(s + pos, n): n bytes from 0-based offset pos
Substr(s, pos, n) == SubSeq(s, pos + 1, pos + n)

\* s.find(c): 0-based position of the first byte equal to c, -1 for npos
RECURSIVE FindFrom(_, _, _)
FindFrom(s, c, k) ==
    IF k >= Len(s) THEN -1
    ELSE IF s[k + 1] = c THEN k
    ELSE FindFrom(s, c, k + 1)

Find(s, c) == FindFrom(s, c, 0)

\* Concatenation of a sequence of strings.
RECURSIVE Concat(_)
Concat(ss) == IF ss = <<>> THEN <<>> ELSE Head(ss) \o Concat(Tail(ss))

-----------------------------------------------------------------------------
\* Unicode utilities.

\* Mutant: the length of the leading byte, whatever max_len leaves room for.
utf8LenUntruncated(c, max_len) ==
    IF max_len = 0 THEN 0
    ELSE IF c < 128 THEN 1
    ELSE IF c \div 32 = 6 THEN 2
    ELSE IF c \div 16 = 14 THEN 3
    ELSE IF c \div 8 = 30 THEN 4
    ELSE 0

\* c is the byte at s[0]; it is read only when max_len > 0.  The masks of the
\* source are divisions: (c & 0xE0) == 0xC0 is c \div 32 = 6, and so on.
utf8_len_char(c, max_len) ==
    IF max_len = 0 THEN 0
    ELSE IF c < 128 THEN 1
    ELSE IF max_len >= 2 /\ c \div 32 = 6 THEN 2
    ELSE IF max_len >= 3 /\ c \div 16 = 14 THEN 3
    ELSE IF max_len >= 4 /\ c \div 8 = 30 THEN 4
    ELSE 0

\* utf8_len_char(s.c_str() + k, s.length() - k) for k < s.length()
CharLenAt(s, k) == utf8_len_char(s[k + 1], Len(s) - k)

-----------------------------------------------------------------------------
\* GGUF metadata, as load_from_gguf reads it.  An array or string key is a
\* record [present, ...]; an integer key is [kind, val] with kind one of
\* "absent", "u32" (GGUF_TYPE_UINT32, val a U32), "i32" (GGUF_TYPE_INT32, val
\* an integer), "other".

Key(arr) == [present |-> TRUE, arr |-> arr]
NoKey == [present |-> FALSE, arr |-> <<>>]
Model(str) == [present |-> TRUE, str |-> str]
NoModel == [present |-> FALSE, str |-> ""]
Kv(kind, val) == [kind |-> kind, val |-> val]
NoKv == [kind |-> "absent", val |-> 0]

\* A metadata source with none of the keys.
NoGguf ==
    [tokens |-> NoKey, model |-> NoModel, merges |-> NoKey, scores |-> NoKey,
     unk |-> NoKv, bos |-> NoKv, eos |-> NoKv, pad_a |-> NoKv, pad_b |-> NoKv]

\* gguf_get_arr_str returning nullptr for an entry
NullStr == <<-1>>

\* m[k] = v on a std::map
MapPut(m, k, v) == [x \in (DOMAIN m) \cup {k} |-> IF x = k THEN v ELSE m[x]]

\* v.resize(n): keeps the first n elements, value-initialises the new ones
Resize(v, n, fill) == [i \in 1..n |-> IF i <= Len(v) THEN v[i] ELSE fill]

\* The merges loop of load_from_gguf from index i on; V carries bpe_merges
\* (already resized) and bpe_ranks.
RECURSIVE LoadMerges(_, _, _)
LoadMerges(V, arr, i) ==
    IF i >= Len(arr) THEN V
    ELSE
        LET m0 == IF arr[i + 1] # NullStr THEN arr[i + 1] ELSE V.bpe_merges[i + 1]
            space_pos == Find(m0, 32)
            V1 == [V EXCEPT !.bpe_merges[i + 1] = m0]
            V2 == IF space_pos # -1 /\ space_pos > 0 /\ space_pos < Len(m0) - 1
                  THEN [V1 EXCEPT !.bpe_ranks =
                            MapPut(@, <<Substr(m0, 0, space_pos),
                                        Substr(m0, space_pos + 1, Len(m0) - space_pos - 1)>>, i)]
                  ELSE V1
        IN  LoadMerges(V2, arr, i + 1)

\* The token loop of load_from_gguf, as its net effect (the vocabulary is too
\* long to unfold the loop): it runs over the indices before the first null
\* entry, and returns false at that entry.  Each index i writes
\* id_to_token[i], then token_to_id[id_to_token[i]] = i, so a later index
\* overwrites an earlier one with the same string; scores_idx is TRUE when the
\* scores key is still in use.
TokensDone(arr) ==
    IF \E i \in 1..Len(arr) : arr[i] = NullStr
    THEN (CHOOSE i \in 1..Len(arr) :
              arr[i] = NullStr /\ \A j \in 1..(i - 1) : arr[j] # NullStr) - 1
    ELSE Len(arr)

LastIndexOf(arr, n, str) ==
    CHOOSE i \in 0..(n - 1) :
        arr[i + 1] = str /\ \A j \in (i + 1)..(n - 1) : arr[j + 1] # str

\* The indices (from 1) at which ((const float *)score_data)[i] reads past the
\* end of the scores array: the key is in use, i < id_to_score.size(), and
\* the array is shorter.
OverReads(V, arr, scores_idx, scores) ==
    {i \in 1..TokensDone(arr) : scores_idx /\ i <= Len(V.id_to_score) /\ i > Len(scores)}

\* What line 89 stores when it reads past the end of the scores array: the
\* float that lies k floats behind the array (k from 0), whatever it is.
PastEnd(k) == [past_end |-> k]

\* score_data is what gguf_get_arr_data and the memory behind the array do.
\* score_data.null: the pointer is nullptr and no score is assigned.
\* Otherwise a read past the end at index i stores PastEnd(i - size), but
\* for the read at index score_data.fault_at (0: none), which ends the
\* process with the loop in the middle of that index: id_to_token[i] and
\* token_to_id written, id_to_score[i] not.
\* Returns [ok, fault, store].
LoadTokens(V, arr, scores_idx, scores, score_data) ==
    LET over == IF score_data.null THEN {}
                ELSE OverReads(V, arr, scores_idx, scores)
        fault == score_data.fault_at \in over
        n == IF fault THEN score_data.fault_at ELSE TokensDone(arr)
        seen == {arr[i] : i \in 1..n}
    IN  [ok |-> ~fault /\ n = Len(arr),
         fault |-> fault,
         store |-> [V EXCEPT
             !.id_to_token = [i \in 1..Len(@) |-> IF i <= n THEN arr[i] ELSE @[i]],
             !.token_to_id = [str \in (DOMAIN @) \cup seen |->
                                 IF str \in seen THEN LastIndexOf(arr, n, str)
                                 ELSE @[str]],
             !.id_to_score = [i \in 1..Len(@) |->
                                 IF scores_idx /\ ~score_data.null
                                    /\ i <= n /\ ~(fault /\ i = n)
                                 THEN IF i <= Len(scores) THEN scores[i]
                                      ELSE PastEnd(i - 1 - Len(scores))
                                 ELSE @[i]]]]

\* The load_special_token lambda: the new value of the member.
load_special_token(kv, default_val_if_not_found) ==
    IF kv.kind = "u32" THEN ToInt32(kv.val)
    ELSE IF kv.kind = "i32" THEN kv.val
    ELSE default_val_if_not_found

\* The padding id: "padding_token_id" first, then "pad_token_id"; a key of
\* another value type leaves the member as it was.
LoadPad(old, pad_a, pad_b) ==
    LET kv == IF pad_a.kind # "absent" THEN pad_a ELSE pad_b
    IN  IF kv.kind = "absent" THEN -1
        ELSE IF kv.kind = "u32" THEN ToInt32(kv.val)
        ELSE IF kv.kind = "i32" THEN kv.val
        ELSE old

IsBpeModelName(model_name) == model_name \in {"gpt2", "gpt-2", "bpe"}

\* Mutant: the model key is read before the tokens key is looked for.
loadModelBeforeTokens(V, md, score_data) ==
    IF ~md.tokens.present
    THEN [ok |-> FALSE, fault |-> FALSE,
          store |-> IF md.model.present
                    THEN [V EXCEPT !.type = IF IsBpeModelName(md.model.str)
                                            THEN "BPE" ELSE "SPM"]
                    ELSE V]
    ELSE [ok |-> TRUE, fault |-> FALSE, store |-> V]

\* load_from_gguf up to the token loop, for metadata with the tokens key:
\* the type and the merges, the resize of id_to_token, and the scores key,
\* [store, scores_idx].
LoadHead(V, md) ==
    LET Va == IF ~md.model.present THEN V
              ELSE IF IsBpeModelName(md.model.str)
              THEN IF md.merges.present
                   THEN LoadMerges(
                            [V EXCEPT !.type = "BPE",
                                      !.bpe_merges = Resize(@, Len(md.merges.arr), <<>>)],
                            md.merges.arr, 0)
                   ELSE [V EXCEPT !.type = "BPE"]
              ELSE [V EXCEPT !.type = "SPM"]
        n_vocab_gguf == Len(md.tokens.arr)
        Vb == [Va EXCEPT !.id_to_token = Resize(@, n_vocab_gguf, <<>>)]
        accept == md.scores.present /\ Vb.type = "SPM"
                  /\ Len(md.scores.arr) = n_vocab_gguf
    IN  [store |-> IF accept THEN [Vb EXCEPT !.id_to_score = Resize(@, n_vocab_gguf, 0)]
                   ELSE Vb,
         \* scores_idx is reset to -1 only on a size mismatch of an SPM store
         scores_idx |-> md.scores.present /\ (Vb.type = "SPM" => accept)]

\* SanaVocab::load_from_gguf on store V: [ok, fault, store]; with fault the
\* call has not returned and store is what it had written.
load_from_gguf(V, md, score_data) ==
    IF ~md.tokens.present THEN [ok |-> FALSE, fault |-> FALSE, store |-> V]
    ELSE
        LET h == LoadHead(V, md)
            r == LoadTokens(h.store, md.tokens.arr, h.scores_idx,
                            IF md.scores.present THEN md.scores.arr ELSE <<>>,
                            score_data)
        IN  IF ~r.ok THEN r
            ELSE [ok |-> TRUE, fault |-> FALSE,
                  store |-> [r.store EXCEPT
                      !.bos_token_id = load_special_token(md.bos, -1),
                      !.eos_token_id = load_special_token(md.eos, -1),
                      !.unk_token_id = load_special_token(md.unk, -1),
                      !.pad_token_id = LoadPad(@, md.pad_a, md.pad_b)]]

\* What gguf_get_arr_data and the memory behind the scores array may do in
\* load_from_gguf(md) on store V: every read past the end succeeds, or the
\* one at some index ends the process; and the data pointer of an empty
\* scores array may be nullptr.
ScoreReads(V, md) ==
    LET scores == IF md.scores.present THEN md.scores.arr ELSE <<>>
        over == IF ~md.tokens.present THEN {}
                ELSE OverReads(LoadHead(V, md).store, md.tokens.arr,
                               LoadHead(V, md).scores_idx, scores)
    IN  {[null |-> FALSE, fault_at |-> k] : k \in {0} \cup over}
        \cup (IF over # {} /\ scores = <<>>
              THEN {[null |-> TRUE, fault_at |-> 0]}
              ELSE {})

\* A default-constructed SanaVocab.
NewVocab ==
    [type |-> "SPM", token_to_id |-> <<>>, id_to_token |-> <<>>, id_to_score |-> <<>>,
     bpe_ranks |-> <<>>, bpe_merges |-> <<>>,
     bos_token_id |-> 0, eos_token_id |-> 1, pad_token_id |-> -1, unk_token_id |-> 2]

-----------------------------------------------------------------------------
\* tokenize_spm.  A symbol is [prev, next, offs, n]: text_ptr = text + offs.
\* A bigram is [left, right, score, size].  The work queue is the set of the
\* bigrams it holds.

\* The segmentation loop: one symbol per decoded codepoint, a byte that does
\* not decode is skipped.  syms are the symbols pushed so far.
RECURSIVE SpmSegment(_, _, _)
SpmSegment(text, current_offs, syms) ==
    IF current_offs >= Len(text) THEN syms
    ELSE
        LET char_len == CharLenAt(text, current_offs)
        IN  IF char_len = 0 THEN SpmSegment(text, current_offs + 1, syms)
            ELSE SpmSegment(text, current_offs + char_len,
                     Append(syms, [prev |-> Len(syms) - 1, next |-> -1,
                                   offs |-> current_offs, n |-> char_len]))

\* The loop that sets the next links.
SpmLink(syms) ==
    [i \in 1..Len(syms) |->
        [syms[i] EXCEPT !.next = IF i - 1 < Len(syms) - 1 THEN i ELSE -1]]

\* The bytes std::string(sym.text_ptr, n) reads.
SymText(text, sym, n) == Substr(text, sym.offs, n)

\* SanaSpmBigram::comparator: TRUE when l is ordered before r, that is when r
\* has priority over l.
\* Mutant: no tie-break on the left index.
comparatorScoreOnly(l, r) == l.score < r.score

\* Mutant: the tie-break reversed, the larger left index first.
comparatorLargerLeft(l, r) ==
    IF l.score # r.score THEN l.score < r.score ELSE l.left < r.left

comparator(l, r) ==
    IF l.score # r.score THEN l.score < r.score ELSE l.left > r.left

\* The bigrams work_queue.top() can return: those no other one has priority
\* over.  The order among bigrams the comparator does not separate is the
\* heap's, which the source does not fix.
QueueTops(work_queue) ==
    {b \in work_queue : \A o \in work_queue : ~comparator(b, o)}

\* The try_add_bigram_spm lambda: the work queue after the call.
try_add_bigram_spm(V, text, symbols, work_queue, left_idx, right_idx) ==
    IF left_idx = -1 \/ right_idx = -1 THEN work_queue
    ELSE IF left_idx >= Len(symbols) \/ right_idx >= Len(symbols) THEN work_queue
    ELSE
        LET left_s == symbols[left_idx + 1]
            right_s == symbols[right_idx + 1]
            piece == SymText(text, left_s, left_s.n + right_s.n)
        IN  IF left_s.n = 0 \/ right_s.n = 0 THEN work_queue
            ELSE IF piece \in DOMAIN V.token_to_id
                    /\ UintLess(V.token_to_id[piece], Len(V.id_to_score))
            THEN work_queue \cup
                     {[left |-> left_idx, right |-> right_idx,
                       score |-> V.id_to_score[V.token_to_id[piece] + 1],
                       size |-> Len(piece)]}
            ELSE work_queue

\* The loop that seeds the queue with the adjacent pairs (i, i + 1).
RECURSIVE SpmSeed(_, _, _, _, _)
SpmSeed(V, text, symbols, work_queue, i) ==
    IF i >= Len(symbols) - 1 THEN work_queue
    ELSE SpmSeed(V, text, symbols,
                 try_add_bigram_spm(V, text, symbols, work_queue, i, i + 1), i + 1)

\* Mutant: the staleness check without the comparison of the sizes.
SpmValidNoSize(symbols, bigram) ==
    /\ bigram.left < Len(symbols) /\ bigram.right < Len(symbols)
    /\ LET left_sym == symbols[bigram.left + 1]
           right_sym == symbols[bigram.right + 1]
       IN  ~(left_sym.n = 0 \/ right_sym.n = 0)

\* TRUE when the popped bigram passes the checks of the merge loop.
SpmValid(symbols, bigram) ==
    /\ bigram.left < Len(symbols) /\ bigram.right < Len(symbols)
    /\ LET left_sym == symbols[bigram.left + 1]
           right_sym == symbols[bigram.right + 1]
       IN  ~(left_sym.n = 0 \/ right_sym.n = 0
             \/ left_sym.n + right_sym.n # bigram.size)

\* Mutant: the merge without the relinking of the left symbol's next.
SpmMergeNoRelink(symbols, bigram) ==
    LET left_sym == symbols[bigram.left + 1]
        right_sym == symbols[bigram.right + 1]
    IN  [symbols EXCEPT ![bigram.left + 1].n = left_sym.n + right_sym.n,
                        ![bigram.right + 1].n = 0]

\* The symbol array after merging the right symbol into the left one.
SpmMerge(symbols, bigram) ==
    LET left_sym == symbols[bigram.left + 1]
        right_sym == symbols[bigram.right + 1]
        s1 == [symbols EXCEPT ![bigram.left + 1].n = left_sym.n + right_sym.n,
                              ![bigram.right + 1].n = 0,
                              ![bigram.left + 1].next = right_sym.next]
    IN  IF right_sym.next # -1 /\ right_sym.next < Len(symbols)
        THEN [s1 EXCEPT ![right_sym.next + 1].prev = bigram.left]
        ELSE s1

\* Mutant: top() without pop(), the bigram stays in the queue.
SpmPopStepNoPop(V, text, symbols, work_queue, bigram) ==
    IF ~SpmValid(symbols, bigram)
    THEN [symbols |-> symbols, work_queue |-> work_queue, merged |-> FALSE]
    ELSE
        LET s1 == SpmMerge(symbols, bigram)
            left_sym == s1[bigram.left + 1]
            q1 == try_add_bigram_spm(V, text, s1, work_queue, left_sym.prev, bigram.left)
            q2 == try_add_bigram_spm(V, text, s1, q1, bigram.left, left_sym.next)
        IN  [symbols |-> s1, work_queue |-> q2, merged |-> TRUE]

\* One iteration of the merge loop with bigram on top of the queue:
\* [symbols, work_queue, merged].
SpmPopStep(V, text, symbols, work_queue, bigram) ==
    LET q0 == work_queue \ {bigram}
    IN  IF ~SpmValid(symbols, bigram)
        THEN [symbols |-> symbols, work_queue |-> q0, merged |-> FALSE]
        ELSE
            LET s1 == SpmMerge(symbols, bigram)
                left_sym == s1[bigram.left + 1]
                q1 == try_add_bigram_spm(V, text, s1, q0, left_sym.prev, bigram.left)
                q2 == try_add_bigram_spm(V, text, s1, q1, bigram.left, left_sym.next)
            IN  [symbols |-> s1, work_queue |-> q2, merged |-> TRUE]

\* Mutant: with unk_token_id unset the loop ends at the first codepoint that
\* is no vocabulary entry.
RECURSIVE CharIdsStopAtUnmapped(_, _, _, _)
CharIdsStopAtUnmapped(V, piece, j, out) ==
    IF j >= Len(piece) THEN out
    ELSE
        LET char_len == CharLenAt(piece, j)
            unk == IF V.unk_token_id # -1 THEN <<V.unk_token_id>> ELSE <<>>
        IN  IF char_len = 0 THEN CharIdsStopAtUnmapped(V, piece, j + 1, out \o unk)
            ELSE
                LET char_s == Substr(piece, j, char_len)
                IN  IF char_s \in DOMAIN V.token_to_id
                    THEN CharIdsStopAtUnmapped(V, piece, j + char_len,
                                               Append(out, V.token_to_id[char_s]))
                    ELSE IF V.unk_token_id = -1 THEN out
                    ELSE CharIdsStopAtUnmapped(V, piece, j + char_len, out \o unk)

\* The ids of the codepoints of piece from offset j on: the fallback loop for
\* a final piece that is no vocabulary entry (and the whole of the BPE bootstrap
\* path).  A byte that does not decode emits unk_token_id like an unmapped
\* codepoint does.
RECURSIVE CharIds(_, _, _, _)
CharIds(V, piece, j, out) ==
    IF j >= Len(piece) THEN out
    ELSE
        LET char_len == CharLenAt(piece, j)
            unk == IF V.unk_token_id # -1 THEN <<V.unk_token_id>> ELSE <<>>
        IN  IF char_len = 0 THEN CharIds(V, piece, j + 1, out \o unk)
            ELSE
                LET char_s == Substr(piece, j, char_len)
                IN  CharIds(V, piece, j + char_len,
                            IF char_s \in DOMAIN V.token_to_id
                            THEN Append(out, V.token_to_id[char_s])
                            ELSE out \o unk)

\* The ids of one final piece: its own id, or those of its codepoints.
PieceIds(V, final_piece) ==
    IF final_piece \in DOMAIN V.token_to_id
    THEN <<V.token_to_id[final_piece]>>
    ELSE CharIds(V, final_piece, 0, <<>>)

\* The final traversal from symbol i along the next links.
RECURSIVE SpmOutput(_, _, _, _, _)
SpmOutput(V, text, symbols, i, output_tokens) ==
    IF i = -1 THEN output_tokens
    ELSE
        LET sym == symbols[i + 1]
        IN  SpmOutput(V, text, symbols, sym.next,
                IF sym.n > 0
                THEN output_tokens \o PieceIds(V, SymText(text, sym, sym.n))
                ELSE output_tokens)

\* The merge loop run to the end, the top taken by a fixed choice.
RECURSIVE SpmRun(_, _, _, _)
SpmRun(V, text, symbols, work_queue) ==
    IF work_queue = {} THEN symbols
    ELSE
        LET bigram == CHOOSE b \in QueueTops(work_queue) : TRUE
            r == SpmPopStep(V, text, symbols, work_queue, bigram)
        IN  SpmRun(V, text, r.symbols, r.work_queue)

\* TRUE when tokenize_spm returns before segmenting.
SpmEarly(V, text) == text = <<>> \/ V.id_to_score = <<>>

\* The result of the early return: unk_token_id when it is not -1.
SpmEarlyOutput(V, text) ==
    IF text # <<>> /\ V.unk_token_id # -1 THEN <<V.unk_token_id>> ELSE <<>>

\* SanaVocab::tokenize_spm
tokenize_spm(V, text) ==
    IF SpmEarly(V, text) THEN SpmEarlyOutput(V, text)
    ELSE
        LET symbols == SpmLink(SpmSegment(text, 0, <<>>))
        IN  IF symbols = <<>> THEN <<>>
            ELSE SpmOutput(V, text,
                     SpmRun(V, text, symbols, SpmSeed(V, text, symbols, {}, 0)),
                     0, <<>>)

-----------------------------------------------------------------------------
\* bpe_pre_tokenize_gpt2.  The character classes are those of the "C" locale.

IsAlpha(c) == c \in 65..90 \/ c \in 97..122
IsDigit(c) == c \in 48..57
IsSpace(c) == c = 32 \/ c \in 9..13
IsOther(c) == ~IsSpace(c) /\ ~IsAlpha(c) /\ ~IsDigit(c)

\* The class of a byte: "alpha", "digit", "other" or "space".
ByteClass(c) ==
    IF IsAlpha(c) THEN "alpha"
    ELSE IF IsDigit(c) THEN "digit"
    ELSE IF IsOther(c) THEN "other"
    ELSE "space"

\* Length of the longest run of bytes of class cls from offset p on.
RECURSIVE RunLen(_, _, _)
RunLen(text, p, cls) ==
    IF p >= Len(text) \/ ByteClass(text[p + 1]) # cls THEN 0
    ELSE 1 + RunLen(text, p + 1, cls)

\* TRUE when the bytes of lit stand at offset p.
LitAt(text, p, lit) ==
    p + Len(lit) <= Len(text) /\ Substr(text, p, Len(lit)) = lit

\* The contraction suffixes of the pattern, in its order:
\* 's 't 're 've 'm 'll 'd
Contractions ==
    << <<39, 115>>, <<39, 116>>, <<39, 114, 101>>, <<39, 118, 101>>,
       <<39, 109>>, <<39, 108, 108>>, <<39, 100>> >>

\* Mutant: a run ends at a byte that utf8_len_char takes for a leading byte
\* of a multi-byte sequence, the bytes after it are left to the next match.
MatchLenAtLeadSplit(text, p) ==
    IF p >= Len(text) THEN 0
    ELSE IF \E k \in 1..Len(Contractions) : LitAt(text, p, Contractions[k])
    THEN Len(Contractions[CHOOSE k \in 1..Len(Contractions) :
                 /\ LitAt(text, p, Contractions[k])
                 /\ \A j \in 1..(k - 1) : ~LitAt(text, p, Contractions[j])])
    ELSE IF text[p + 1] >= 192 THEN 1
    ELSE RunLen(text, p, ByteClass(text[p + 1]))

\* Length of the match of the pattern that starts at offset p, 0 for none: the
\* first alternative that matches, a run being taken whole.
MatchLenAt(text, p) ==
    IF p >= Len(text) THEN 0
    ELSE IF \E k \in 1..Len(Contractions) : LitAt(text, p, Contractions[k])
    THEN Len(Contractions[CHOOSE k \in 1..Len(Contractions) :
                 /\ LitAt(text, p, Contractions[k])
                 /\ \A j \in 1..(k - 1) : ~LitAt(text, p, Contractions[j])])
    ELSE RunLen(text, p, ByteClass(text[p + 1]))

\* The iteration of sregex_token_iterator from offset p on: each match is
\* pushed and last_pos advances by its length.  [result, last_pos]
RECURSIVE RegexTokens(_, _, _, _)
RegexTokens(text, p, result, last_pos) ==
    IF p >= Len(text) THEN [result |-> result, last_pos |-> last_pos]
    ELSE
        LET n == MatchLenAt(text, p)
        IN  IF n = 0 THEN RegexTokens(text, p + 1, result, last_pos)
            ELSE RegexTokens(text, p + n, Append(result, Substr(text, p, n)),
                             last_pos + n)

\* The strings of the codepoints of s from offset k on, a byte that does not
\* decode being skipped.
RECURSIVE SplitChars(_, _, _)
SplitChars(s, k, result) ==
    IF k >= Len(s) THEN result
    ELSE
        LET char_len == CharLenAt(s, k)
        IN  IF char_len = 0 THEN SplitChars(s, k + 1, result)
            ELSE SplitChars(s, k + char_len, Append(result, Substr(s, k, char_len)))

bpe_pre_tokenize_gpt2(text) ==
    IF text = <<>> THEN <<>>
    ELSE
        LET m == RegexTokens(text, 0, <<>>, 0)
            r1 == IF m.last_pos < Len(text)
                  THEN SplitChars(Substr(text, m.last_pos, Len(text) - m.last_pos),
                                  0, m.result)
                  ELSE m.result
        IN  IF r1 = <<>> THEN SplitChars(text, 0, <<>>) ELSE r1

-----------------------------------------------------------------------------
\* tokenize_bpe.

\* Mutant: the size test reversed.
BpeBootstrapLarge(V) == V.bpe_ranks = <<>> /\ Len(V.id_to_token) >= 256

\* TRUE when tokenize_bpe takes the bootstrap path.
BpeBootstrap(V) == V.bpe_ranks = <<>> /\ Len(V.id_to_token) < 256

\* Mutant: a pair of equal rank replaces the best one, the last occurrence
\* of the lowest rank wins.
RECURSIVE BpeScanLastTie(_, _, _, _, _)
BpeScanLastTie(V, sub_tokens, j, best_rank, merge_idx) ==
    IF j >= Len(sub_tokens) - 1
    THEN [best_rank |-> best_rank, merge_idx |-> merge_idx]
    ELSE
        LET pair == <<sub_tokens[j + 1], sub_tokens[j + 2]>>
        IN  IF pair \in DOMAIN V.bpe_ranks
               /\ (best_rank = -1 \/ V.bpe_ranks[pair] <= best_rank)
            THEN BpeScanLastTie(V, sub_tokens, j + 1, V.bpe_ranks[pair], j)
            ELSE BpeScanLastTie(V, sub_tokens, j + 1, best_rank, merge_idx)

\* The scan over the adjacent pairs from j on: [best_rank, merge_idx].
RECURSIVE BpeScan(_, _, _, _, _)
BpeScan(V, sub_tokens, j, best_rank, merge_idx) ==
    IF j >= Len(sub_tokens) - 1
    THEN [best_rank |-> best_rank, merge_idx |-> merge_idx]
    ELSE
        LET pair == <<sub_tokens[j + 1], sub_tokens[j + 2]>>
        IN  IF pair \in DOMAIN V.bpe_ranks
               /\ (best_rank = -1 \/ V.bpe_ranks[pair] < best_rank)
            THEN BpeScan(V, sub_tokens, j + 1, V.bpe_ranks[pair], j)
            ELSE BpeScan(V, sub_tokens, j + 1, best_rank, merge_idx)

\* sub_tokens after the erase and insert at merge_idx.
BpeApply(sub_tokens, merge_idx) ==
    SubSeq(sub_tokens, 1, merge_idx)
        \o <<sub_tokens[merge_idx + 1] \o sub_tokens[merge_idx + 2]>>
        \o SubSeq(sub_tokens, merge_idx + 3, Len(sub_tokens))

\* One iteration of the while loop, entered with merged_in_iteration and
\* more than one piece: [sub_tokens, merged_in_iteration].
BpeMergeStep(V, sub_tokens) ==
    LET sc == BpeScan(V, sub_tokens, 0, -1, -1)
    IN  IF sc.best_rank # -1
        THEN [sub_tokens |-> BpeApply(sub_tokens, sc.merge_idx),
              merged_in_iteration |-> TRUE]
        ELSE [sub_tokens |-> sub_tokens, merged_in_iteration |-> FALSE]

\* The while loop run to the end.
RECURSIVE BpeMergeLoop(_, _, _)
BpeMergeLoop(V, sub_tokens, merged_in_iteration) ==
    IF ~(merged_in_iteration /\ Len(sub_tokens) > 1) THEN sub_tokens
    ELSE LET r == BpeMergeStep(V, sub_tokens)
         IN  BpeMergeLoop(V, r.sub_tokens, r.merged_in_iteration)

\* The ids of the final pieces of one word.
RECURSIVE BpeEmit(_, _, _)
BpeEmit(V, sub_tokens, output_tokens) ==
    IF sub_tokens = <<>> THEN output_tokens
    ELSE BpeEmit(V, Tail(sub_tokens), output_tokens \o PieceIds(V, Head(sub_tokens)))

\* Mutant: the whole-word lookup is made only when no merges are loaded.
BpeWholeWordNoRanks(V, word) == word \in DOMAIN V.token_to_id /\ V.bpe_ranks = <<>>

\* TRUE when the word is emitted by the whole-word lookup.
BpeWholeWord(V, word) == word \in DOMAIN V.token_to_id

\* The body of the loop over the words for one word: the ids it appends.
BpeWordIds(V, word) ==
    IF word = <<>> THEN <<>>
    ELSE IF BpeWholeWord(V, word) THEN <<V.token_to_id[word]>>
    ELSE
        LET sub_tokens == SplitChars(word, 0, <<>>)
        IN  IF sub_tokens = <<>> THEN <<>>
            ELSE BpeEmit(V, BpeMergeLoop(V, sub_tokens, TRUE), <<>>)

RECURSIVE BpeWords(_, _, _)
BpeWords(V, words, output_tokens) ==
    IF words = <<>> THEN output_tokens
    ELSE BpeWords(V, Tail(words), output_tokens \o BpeWordIds(V, Head(words)))

\* SanaVocab::tokenize_bpe
tokenize_bpe(V, text) ==
    IF text = <<>> THEN <<>>
    ELSE IF BpeBootstrap(V) THEN CharIds(V, text, 0, <<>>)
    ELSE BpeWords(V, bpe_pre_tokenize_gpt2(text), <<>>)

-----------------------------------------------------------------------------
\* tokenize.

\* TRUE when a special id is emitted: set, and inside id_to_token.
SpecialInRange(V, id) == id # -1 /\ UintLess(id, Len(V.id_to_token))

\* Mutant: the range check on bos_token_id is dropped.
BosPrefixUnchecked(V, add_bos) ==
    IF add_bos /\ V.bos_token_id # -1 THEN <<V.bos_token_id>> ELSE <<>>

BosPrefix(V, add_bos) ==
    IF add_bos /\ SpecialInRange(V, V.bos_token_id) THEN <<V.bos_token_id>> ELSE <<>>

\* Mutant: eos is appended only when bos was prepended.
EosSuffixWithBos(V, add_eos) ==
    IF add_eos /\ SpecialInRange(V, V.eos_token_id) /\ SpecialInRange(V, V.bos_token_id)
    THEN <<V.eos_token_id>> ELSE <<>>

EosSuffix(V, add_eos) ==
    IF add_eos /\ SpecialInRange(V, V.eos_token_id) THEN <<V.eos_token_id>> ELSE <<>>

\* SanaVocab::tokenize
tokenize(V, text, add_bos, add_eos) ==
    BosPrefix(V, add_bos)
        \o (IF V.type = "SPM" THEN tokenize_spm(V, text) ELSE tokenize_bpe(V, text))
        \o EosSuffix(V, add_eos)

-----------------------------------------------------------------------------
\* The state machine.  A caller is at "idle" (no call), inside the SPM merge
\* loop ("spm_merge"), at the head of the BPE loop over the words
\* ("bpe_word"), inside the BPE while loop of one word ("bpe_merge"), or has
\* returned ("done", result holds the returned vector).  popped, pops, merges
\* and scans record what the call did: the last bigram popped, the number of
\* pops, the (left, right) pairs merged in order, the number of BPE scans.

Callers == 1..NumCallers

NoBigram == [left |-> -1, right |-> -1, score |-> 0, size |-> 0]

IdleCall ==
    [pc |-> "idle", text |-> <<>>, add_bos |-> FALSE, add_eos |-> FALSE,
     output |-> <<>>, symbols |-> <<>>, work_queue |-> {},
     words |-> <<>>, sub_tokens |-> <<>>, merged_in_iteration |-> FALSE,
     output_tokens |-> <<>>, result |-> <<>>,
     popped |-> NoBigram, pops |-> 0, merges |-> <<>>, scans |-> 0]

\* A default-constructed store, no load made, no call running.
InitStore ==
    /\ type = NewVocab.type
    /\ token_to_id = NewVocab.token_to_id
    /\ id_to_token = NewVocab.id_to_token
    /\ id_to_score = NewVocab.id_to_score
    /\ bpe_ranks = NewVocab.bpe_ranks
    /\ bpe_merges = NewVocab.bpe_merges
    /\ bos_token_id = NewVocab.bos_token_id
    /\ eos_token_id = NewVocab.eos_token_id
    /\ pad_token_id = NewVocab.pad_token_id
    /\ unk_token_id = NewVocab.unk_token_id
    /\ loads = 0
    /\ load_ok = FALSE
    /\ load_fault = FALSE
    /\ ctx_gguf = NoGguf
    /\ calls = [c \in Callers |-> IdleCall]

\* No call of bpe_pre_tokenize_gpt2 made.
NoPreCall == [text |-> <<>>, called |-> FALSE, words |-> <<>>]

\* A default-constructed ChromaCacheState: the default member initializers.
NewCache ==
    [config |-> [enabled |-> FALSE, start_percent |-> 0, end_percent |-> 0,
                 interval |-> 0],
     denoiser |-> FALSE, start_sigma |-> 0, end_sigma |-> 0,
     initialized |-> FALSE, use_cache |-> FALSE, consecutive_cache_hits |-> 0,
     buffers |-> <<>>]

\* No member function called yet.  run counts the check_cache calls that
\* returned true since the last one that returned false and the last init or
\* reset_runtime.
NoCacheCall == [op |-> "none", sigma |-> 0, ret |-> FALSE, buffer |-> 0, run |-> 0]

\* A SanaSCMScheduler constructed with the given params.
NewSched(scheduler_params) ==
    [params |-> scheduler_params, timesteps |-> <<>>, num_inference_steps |-> 0]

\* A tensor is its name and the expression it holds; nullptr is no tensor.
NullTensor == [name |-> "nullptr", value |-> ""]

\* No member function called yet.  created counts the tensors the call made
\* in ctx, threw tells that it left by an exception.
NoSchedCall ==
    [op |-> "none", time_index |-> 0, prev_sample |-> NullTensor,
     denoised |-> NullTensor, s_val |-> 0, t_val |-> 0, created |-> 0,
     threw |-> FALSE]

\* The default SanaSCMSchedulerParams.  A time is an integer, 60 to pi/2
\* (the intermediate 1.0 is 38 to the nearest unit).
DefaultParams == [max_timesteps_val |-> 60, intermediate_timesteps_val |-> 38]

\* The objects outside the tokenizer, as constructed.
InitOthers ==
    /\ pre_call = NoPreCall
    /\ cache = NewCache /\ cache_call = NoCacheCall
    /\ sched = NewSched(DefaultParams) /\ sched_call = NoSchedCall

Init ==
    /\ InitStore
    /\ arg_s = 0 /\ arg_max_len = 0 /\ ret_len = -1
    /\ InitOthers

\* load_from_gguf(md), called while no tokenize call is running.  Nothing
\* is called after a call that ended the process.
Load(md, score_data) ==
    /\ ~load_fault
    /\ \A c \in Callers : calls[c].pc = "idle"
    /\ LET r == load_from_gguf(vocab, md, score_data)
       IN  /\ type' = r.store.type
           /\ token_to_id' = r.store.token_to_id
           /\ id_to_token' = r.store.id_to_token
           /\ id_to_score' = r.store.id_to_score
           /\ bpe_ranks' = r.store.bpe_ranks
           /\ bpe_merges' = r.store.bpe_merges
           /\ bos_token_id' = r.store.bos_token_id
           /\ eos_token_id' = r.store.eos_token_id
           /\ pad_token_id' = r.store.pad_token_id
           /\ unk_token_id' = r.store.unk_token_id
           /\ load_ok' = r.ok
           /\ load_fault' = r.fault
    /\ loads' = loads + 1
    /\ ctx_gguf' = md
    /\ UNCHANGED <<calls, unitVars>>

\* The caller's record once tokenize has returned tokens from the tokenizer.
Returned(V, call, tokens) ==
    [call EXCEPT !.pc = "done",
                 !.result = call.output \o tokens \o EosSuffix(V, call.add_eos)]

\* tokenize(text, add_bos, add_eos) up to the first loop of the tokenizer it
\* dispatches to: the caller's record.
CallStart(V, text, add_bos, add_eos) ==
    LET c0 == [IdleCall EXCEPT !.text = text, !.add_bos = add_bos, !.add_eos = add_eos,
                               !.output = BosPrefix(V, add_bos)]
    IN  IF V.type = "SPM"
        THEN IF SpmEarly(V, text) THEN Returned(V, c0, SpmEarlyOutput(V, text))
             ELSE LET symbols == SpmLink(SpmSegment(text, 0, <<>>))
                  IN  IF symbols = <<>> THEN Returned(V, c0, <<>>)
                      ELSE [c0 EXCEPT !.pc = "spm_merge",
                                      !.symbols = symbols,
                                      !.work_queue = SpmSeed(V, text, symbols, {}, 0)]
        ELSE IF text = <<>> THEN Returned(V, c0, <<>>)
             ELSE IF BpeBootstrap(V) THEN Returned(V, c0, CharIds(V, text, 0, <<>>))
             ELSE [c0 EXCEPT !.pc = "bpe_word", !.words = bpe_pre_tokenize_gpt2(text)]

Call(c, text, add_bos, add_eos) ==
    /\ calls[c].pc = "idle"
    /\ loads > 0 /\ load_ok /\ ~load_fault
    /\ calls' = [calls EXCEPT ![c] = CallStart(vocab, text, add_bos, add_eos)]
    /\ UNCHANGED <<storeVars, loads, load_ok, load_fault, ctx_gguf, unitVars>>

\* One iteration of the SPM merge loop; the top is any bigram the comparator
\* lets the heap return.
SpmPop(c) ==
    /\ calls[c].pc = "spm_merge"
    /\ calls[c].work_queue # {}
    /\ \E bigram \in QueueTops(calls[c].work_queue) :
          LET r == SpmPopStep(vocab, calls[c].text, calls[c].symbols,
                              calls[c].work_queue, bigram)
          IN  calls' = [calls EXCEPT ![c] =
                  [@ EXCEPT !.symbols = r.symbols,
                            !.work_queue = r.work_queue,
                            !.popped = bigram,
                            !.pops = @ + 1,
                            !.merges = IF r.merged
                                       THEN Append(@, <<bigram.left, bigram.right>>)
                                       ELSE @]]
    /\ UNCHANGED <<storeVars, loads, load_ok, load_fault, ctx_gguf, unitVars>>

\* The queue is empty: the final traversal, and tokenize returns.
SpmFinish(c) ==
    /\ calls[c].pc = "spm_merge"
    /\ calls[c].work_queue = {}
    /\ calls' = [calls EXCEPT ![c] =
          Returned(vocab, @, SpmOutput(vocab, @.text, @.symbols, 0, <<>>))]
    /\ UNCHANGED <<storeVars, loads, load_ok, load_fault, ctx_gguf, unitVars>>

\* The caller's record after the head of the loop body for the next word: the
\* whole-word lookup, or the split into pieces.
BpeWordStart(V, call) ==
    LET word == Head(call.words)
        skip == [call EXCEPT !.words = Tail(@)]
    IN  IF word = <<>> THEN skip
        ELSE IF BpeWholeWord(V, word)
        THEN [skip EXCEPT !.output_tokens = Append(@, V.token_to_id[word])]
        ELSE LET sub_tokens == SplitChars(word, 0, <<>>)
             IN  IF sub_tokens = <<>> THEN skip
                 ELSE [call EXCEPT !.pc = "bpe_merge",
                                   !.sub_tokens = sub_tokens,
                                   !.merged_in_iteration = TRUE]

\* Mutant: the whole-word lookup is token_to_id[word], which inserts a missing
\* key with id 0.
BpeWordInserting(c) ==
    /\ calls[c].pc = "bpe_word"
    /\ calls[c].words # <<>>
    /\ calls' = [calls EXCEPT ![c] = BpeWordStart(vocab, @)]
    /\ token_to_id' = IF Head(calls[c].words) \in DOMAIN token_to_id THEN token_to_id
                      ELSE MapPut(token_to_id, Head(calls[c].words), 0)
    /\ UNCHANGED <<type, id_to_token, id_to_score, bpe_ranks, bpe_merges,
                   bos_token_id, eos_token_id, pad_token_id, unk_token_id,
                   loads, load_ok, load_fault, ctx_gguf, unitVars>>

BpeWord(c) ==
    /\ calls[c].pc = "bpe_word"
    /\ calls[c].words # <<>>
    /\ calls' = [calls EXCEPT ![c] = BpeWordStart(vocab, @)]
    /\ UNCHANGED <<storeVars, loads, load_ok, load_fault, ctx_gguf, unitVars>>

\* One iteration of the while loop over the pieces of the current word.
BpeMerge(c) ==
    /\ calls[c].pc = "bpe_merge"
    /\ calls[c].merged_in_iteration /\ Len(calls[c].sub_tokens) > 1
    /\ LET r == BpeMergeStep(vocab, calls[c].sub_tokens)
       IN  calls' = [calls EXCEPT ![c] =
               [@ EXCEPT !.sub_tokens = r.sub_tokens,
                         !.merged_in_iteration = r.merged_in_iteration,
                         !.scans = @ + 1]]
    /\ UNCHANGED <<storeVars, loads, load_ok, load_fault, ctx_gguf, unitVars>>

\* The while loop has ended: the final pieces of the word are mapped to ids.
BpeWordEnd(c) ==
    /\ calls[c].pc = "bpe_merge"
    /\ ~(calls[c].merged_in_iteration /\ Len(calls[c].sub_tokens) > 1)
    /\ calls' = [calls EXCEPT ![c] =
          [@ EXCEPT !.pc = "bpe_word",
                    !.words = Tail(@),
                    !.output_tokens = BpeEmit(vocab, calls[c].sub_tokens, @),
                    !.sub_tokens = <<>>,
                    !.merged_in_iteration = FALSE]]
    /\ UNCHANGED <<storeVars, loads, load_ok, load_fault, ctx_gguf, unitVars>>

\* All words done: tokenize returns.
BpeFinish(c) ==
    /\ calls[c].pc = "bpe_word"
    /\ calls[c].words = <<>>
    /\ calls' = [calls EXCEPT ![c] = Returned(vocab, @, @.output_tokens)]
    /\ UNCHANGED <<storeVars, loads, load_ok, load_fault, ctx_gguf, unitVars>>

\* The caller has taken the result; it may call again.
Return(c) ==
    /\ calls[c].pc = "done"
    /\ calls' = [calls EXCEPT ![c] = IdleCall]
    /\ UNCHANGED <<storeVars, loads, load_ok, load_fault, ctx_gguf, unitVars>>

-----------------------------------------------------------------------------
\* The inputs.  Texts are over four bytes: 'a', 'b', 0xC3 (the lead byte of a
\* two-byte codepoint) and 0xA9 (a continuation byte, which does not decode
\* as a lead byte).

TextBytes == {97, 98, 195, 169}

Texts == UNION {[1..n -> TextBytes] : n \in 0..MaxTextLen}

\* "?" "<" ">" "a" "b" "ab" "ba" "aba" "e-acute" "a e-acute": ids 0..9
BaseTokens ==
    << <<63>>, <<60>>, <<62>>, <<97>>, <<98>>, <<97, 98>>, <<98, 97>>,
       <<97, 98, 97>>, <<195, 169>>, <<97, 195, 169>> >>

\* 256 tokens: the base ones, then "#" followed by one byte
BigTokens ==
    [i \in 1..256 |-> IF i <= Len(BaseTokens) THEN BaseTokens[i] ELSE <<35, i - 1>>]

\* The base tokens with "bb" in the place of "ba": "aba" is a token, and of
\* its two pairs only "ab" is one.
GapTokens == [BaseTokens EXCEPT ![7] = <<98, 98>>]

\* "?" "<" ">" "b": no "a", and no token of more than one byte.
SparseTokens == << <<63>>, <<60>>, <<62>>, <<98>> >>

\* Score arrays for BaseTokens; only the scores of "ab", "ba", "aba" and
\* "a e-acute" differ.
ScoreArrays ==
    { <<0, 0, 0, 0, 0, 1, 1, 1, 0, 1>>,
      <<0, 0, 0, 0, 0, 1, 2, 1, 0, 0>>,
      <<0, 0, 0, 0, 0, 2, 1, 3, 0, 2>> }

\* Merges arrays: "a b", "b a", "ab a"; and one with entries that do not split
\* ("ab", " a", "a ").
MergesPlain == << <<97, 32, 98>>, <<98, 32, 97>>, <<97, 98, 32, 97>> >>
MergesMixed == << <<98, 32, 97>>, <<97, 98>>, <<97, 32, 98>>, <<32, 97>>, <<97, 32>> >>
MergeArrays == {MergesPlain, MergesMixed}

\* The vocabulary part of a metadata source: tokens, model, merges, scores.
SpmPart(sc) ==
    [tokens |-> Key(BaseTokens), model |-> Model("llama"), merges |-> NoKey,
     scores |-> Key(sc)]

BpePart(mg) ==
    [tokens |-> Key(BaseTokens), model |-> Model("gpt2"), merges |-> Key(mg),
     scores |-> NoKey]

VocabParts ==
    {SpmPart(sc) : sc \in ScoreArrays}
    \cup {BpePart(mg) : mg \in MergeArrays}
    \cup {[tokens |-> Key(GapTokens), model |-> Model("llama"), merges |-> NoKey,
           scores |-> Key(<<0, 0, 0, 0, 0, 1, 1, 1, 0, 1>>)],
          [tokens |-> Key(SparseTokens), model |-> Model("gpt2"),
           merges |-> Key(MergesPlain), scores |-> NoKey],
          [tokens |-> Key(BaseTokens), model |-> NoModel, merges |-> NoKey,
           scores |-> NoKey],
          [tokens |-> Key(BaseTokens), model |-> Model("t5"), merges |-> NoKey,
           scores |-> Key(<<0, 0, 0>>)],
          [tokens |-> Key(BaseTokens), model |-> Model("gpt-2"), merges |-> NoKey,
           scores |-> NoKey],
          [tokens |-> Key(BigTokens), model |-> Model("bpe"), merges |-> NoKey,
           scores |-> NoKey],
          [tokens |-> NoKey, model |-> Model("gpt2"), merges |-> NoKey,
           scores |-> NoKey]}

\* The special-id keys: all in range; all absent; unk and eos out of range;
\* bos negative and unk absent.
SpecialsAllSet ==
    [unk |-> Kv("u32", U32(0, 0)), bos |-> Kv("u32", U32(0, 1)), eos |-> Kv("i32", 2),
     pad_a |-> NoKv, pad_b |-> NoKv]

SpecialsNone ==
    [unk |-> NoKv, bos |-> NoKv, eos |-> NoKv, pad_a |-> NoKv, pad_b |-> NoKv]

SpecialsOutOfRange ==
    [unk |-> Kv("u32", U32(0, 300)), bos |-> Kv("i32", 1), eos |-> Kv("u32", U32(0, 300)),
     pad_a |-> NoKv, pad_b |-> NoKv]

SpecialsNegativeBos ==
    [unk |-> NoKv, bos |-> Kv("i32", -2), eos |-> Kv("u32", U32(0, 2)),
     pad_a |-> NoKv, pad_b |-> NoKv]

SpecialParts == {SpecialsAllSet, SpecialsNone, SpecialsOutOfRange, SpecialsNegativeBos}

Gguf(vp, sp) ==
    [tokens |-> vp.tokens, model |-> vp.model, merges |-> vp.merges, scores |-> vp.scores,
     unk |-> sp.unk, bos |-> sp.bos, eos |-> sp.eos, pad_a |-> sp.pad_a, pad_b |-> sp.pad_b]

GGUFs == {Gguf(vp, sp) : vp \in VocabParts, sp \in SpecialParts}

-----------------------------------------------------------------------------
\* Spec: the store is loaded once, then one caller tokenizes any text.

LoadOnce ==
    /\ loads = 0
    /\ \E md \in GGUFs : \E score_data \in ScoreReads(vocab, md) :
           Load(md, score_data)

CallAny ==
    \E text \in Texts : \E add_bos \in BOOLEAN : \E add_eos \in BOOLEAN :
        Call(1, text, add_bos, add_eos)

Next ==
    \/ LoadOnce
    \/ CallAny
    \/ SpmPop(1)
    \/ SpmFinish(1)
    \/ BpeWord(1)
    \/ BpeMerge(1)
    \/ BpeWordEnd(1)
    \/ BpeFinish(1)
    \/ Return(1)

Spec == Init /\ [][Next]_vars

-----------------------------------------------------------------------------
\* SpecConc: the store is loaded once, then NumCallers callers tokenize
\* concurrently, their steps interleaved in any order.

\* One SPM store per score array and a BPE store with merges, the special ids
\* all set.
ConcGGUFs ==
    {Gguf(SpmPart(sc), SpecialsAllSet) : sc \in ScoreArrays}
    \cup {Gguf(BpePart(MergesPlain), SpecialsAllSet)}

\* "abab", "aba" and "b<A9>a", with and without decoration
ConcCalls ==
    { [text |-> <<97, 98, 97, 98>>, add_bos |-> FALSE, add_eos |-> FALSE],
      [text |-> <<97, 98, 97>>, add_bos |-> TRUE, add_eos |-> TRUE],
      [text |-> <<98, 169, 97>>, add_bos |-> TRUE, add_eos |-> FALSE] }

LoadConc ==
    /\ loads = 0
    /\ \E md \in ConcGGUFs : \E score_data \in ScoreReads(vocab, md) :
           Load(md, score_data)

CallConc ==
    \E c \in Callers : \E in \in ConcCalls : Call(c, in.text, in.add_bos, in.add_eos)

NextConc ==
    \/ LoadConc
    \/ CallConc
    \/ \E c \in Callers : SpmPop(c)
    \/ \E c \in Callers : SpmFinish(c)
    \/ \E c \in Callers : BpeWord(c)
    \/ \E c \in Callers : BpeMerge(c)
    \/ \E c \in Callers : BpeWordEnd(c)
    \/ \E c \in Callers : BpeFinish(c)
    \/ \E c \in Callers : Return(c)

SpecConc == Init /\ [][NextConc]_vars

-----------------------------------------------------------------------------
\* SpecSpm: an SPM store is loaded once, then one caller tokenizes any text
\* without bos and eos.  The caller's thread keeps running: a loop iteration
\* that can be taken is taken, and so is the return.

SpmGGUFs ==
    {Gguf(vp, SpecialsAllSet) : vp \in {v \in VocabParts : v.model = Model("llama")}}

LoadSpm ==
    /\ loads = 0
    /\ \E md \in SpmGGUFs : \E score_data \in ScoreReads(vocab, md) :
           Load(md, score_data)

CallPlain == \E text \in Texts : Call(1, text, FALSE, FALSE)

NextSpm ==
    \/ LoadSpm
    \/ CallPlain
    \/ SpmPop(1)
    \/ SpmFinish(1)
    \/ Return(1)

SpecSpm ==
    /\ Init /\ [][NextSpm]_vars
    /\ WF_vars(SpmPop(1)) /\ WF_vars(SpmFinish(1))

-----------------------------------------------------------------------------
\* SpecPre: bpe_pre_tokenize_gpt2 called on its own, on any text over an
\* apostrophe, letters of the contraction suffixes, a digit, a space, a
\* punctuation sign and the two bytes of a two-byte codepoint.

PreBytes == {39, 115, 108, 97, 49, 32, 33, 195, 169}

PreTexts == UNION {[1..n -> PreBytes] : n \in 0..MaxTextLen}

InitPre ==
    /\ InitStore
    /\ arg_s = 0 /\ arg_max_len = 0 /\ ret_len = -1
    /\ pre_call \in {[NoPreCall EXCEPT !.text = text] : text \in PreTexts}
    /\ cache = NewCache /\ cache_call = NoCacheCall
    /\ sched = NewSched(DefaultParams) /\ sched_call = NoSchedCall

PreTokenize ==
    /\ ~pre_call.called
    /\ pre_call' = [pre_call EXCEPT !.called = TRUE,
                                    !.words = bpe_pre_tokenize_gpt2(pre_call.text)]
    /\ UNCHANGED <<tokVars, utf8Vars, cacheVars, schedVars>>

NextPre == PreTokenize

SpecPre == InitPre /\ [][NextPre]_vars

-----------------------------------------------------------------------------
\* ChromaCacheState.  A float is an integer from 0 to FltMax, Inf above them,
\* or NaN, with which every comparison is false.  A percent is in hundredths.
\* A tensor pointer is a positive integer, 0 is nullptr.

FltMax == 9
Inf == FltMax + 1
NaN == -1

\* a <= b on floats
FloatLeq(a, b) == a # NaN /\ b # NaN /\ a <= b

\* ChromaCacheState::reset_runtime
reset_runtime(C) ==
    [C EXCEPT !.buffers = <<>>, !.consecutive_cache_hits = 0, !.use_cache = FALSE]

\* ChromaCacheState::enabled
enabled(C) == C.initialized /\ C.config.enabled

\* ChromaCacheState::percent_to_sigma; t_sigma is what denoiser->t_to_sigma
\* returns for the percent.
percent_to_sigma(C, percent, t_sigma) ==
    IF ~C.denoiser THEN 0
    ELSE IF percent <= 0 THEN FltMax
    ELSE IF percent >= 100 THEN 0
    ELSE t_sigma

\* ChromaCacheState::init; d is TRUE for a denoiser, FALSE for nullptr.
init(C, cfg, d, t_start, t_end) ==
    LET c1 == reset_runtime([C EXCEPT !.config = cfg, !.denoiser = d,
                                      !.initialized = cfg.enabled /\ d])
    IN  IF c1.initialized
        THEN [c1 EXCEPT !.start_sigma = percent_to_sigma(c1, cfg.start_percent, t_start),
                        !.end_sigma = percent_to_sigma(c1, cfg.end_percent, t_end)]
        ELSE c1

\* Mutant: the counter is compared with <=, one more hit is let through.
checkCacheOneMore(C, sigma) ==
    IF ~enabled(C) THEN [cache |-> [C EXCEPT !.use_cache = FALSE], ret |-> FALSE]
    ELSE
        LET can_use_cache ==
                /\ "hidden_states" \in DOMAIN C.buffers
                /\ FloatLeq(sigma, C.start_sigma) /\ FloatLeq(C.end_sigma, sigma)
                /\ C.consecutive_cache_hits <= C.config.interval
        IN  [cache |-> [C EXCEPT !.consecutive_cache_hits =
                                     IF can_use_cache THEN @ + 1 ELSE 0,
                                 !.use_cache = can_use_cache],
             ret |-> can_use_cache]

\* ChromaCacheState::check_cache: [cache, ret]
check_cache(C, sigma) ==
    IF ~enabled(C) THEN [cache |-> [C EXCEPT !.use_cache = FALSE], ret |-> FALSE]
    ELSE
        LET can_use_cache ==
                /\ "hidden_states" \in DOMAIN C.buffers
                /\ FloatLeq(sigma, C.start_sigma) /\ FloatLeq(C.end_sigma, sigma)
                /\ C.consecutive_cache_hits < C.config.interval
        IN  [cache |-> [C EXCEPT !.consecutive_cache_hits =
                                     IF can_use_cache THEN @ + 1 ELSE 0,
                                 !.use_cache = can_use_cache],
             ret |-> can_use_cache]

\* ChromaCacheState::get_buffer
get_buffer(C, name) == IF name \in DOMAIN C.buffers THEN C.buffers[name] ELSE 0

\* ChromaCacheState::set_buffer
set_buffer(C, name, buffer) == [C EXCEPT !.buffers = MapPut(@, name, buffer)]

\* The calls on the object.

CacheInit(cfg, d, t_start, t_end) ==
    /\ cache' = init(cache, cfg, d, t_start, t_end)
    /\ cache_call' = [NoCacheCall EXCEPT !.op = "init"]
    /\ UNCHANGED <<tokVars, utf8Vars, pre_call, schedVars>>

CacheResetRuntime ==
    /\ cache' = reset_runtime(cache)
    /\ cache_call' = [NoCacheCall EXCEPT !.op = "reset_runtime"]
    /\ UNCHANGED <<tokVars, utf8Vars, pre_call, schedVars>>

CacheSetBuffer(name, buffer) ==
    /\ cache' = set_buffer(cache, name, buffer)
    /\ cache_call' = [NoCacheCall EXCEPT !.op = "set_buffer", !.run = cache_call.run]
    /\ UNCHANGED <<tokVars, utf8Vars, pre_call, schedVars>>

CacheGetBuffer(name) ==
    /\ cache_call' = [NoCacheCall EXCEPT !.op = "get_buffer",
                                         !.buffer = get_buffer(cache, name),
                                         !.run = cache_call.run]
    /\ UNCHANGED <<cache, tokVars, utf8Vars, pre_call, schedVars>>

CacheCheck(sigma) ==
    LET r == check_cache(cache, sigma)
    IN  /\ cache' = r.cache
        /\ cache_call' = [NoCacheCall EXCEPT !.op = "check_cache", !.sigma = sigma,
                                             !.ret = r.ret,
                                             !.run = IF r.ret THEN cache_call.run + 1
                                                     ELSE 0]
        /\ UNCHANGED <<tokVars, utf8Vars, pre_call, schedVars>>

\* SpecCache: any sequence of calls on one ChromaCacheState.

Percents == {0, 50, 100}

CacheConfigs ==
    [enabled : BOOLEAN, start_percent : Percents, end_percent : Percents,
     interval : -1..MaxInterval]

\* What denoiser->t_to_sigma may return.
TSigmas == {1, NaN}

\* What denoiser->t_to_sigma returns to init(cfg, d) for percent: any of
\* TSigmas when init calls it, and 0 (not used) when it does not.
TSigmasFor(cfg, d, percent) ==
    IF cfg.enabled /\ d /\ percent > 0 /\ percent < 100 THEN TSigmas ELSE {0}

\* The sigma values handed to check_cache.
SigmaArgs == {0, 1, Inf, NaN}

BufferNames == {"hidden_states", "other"}

NextCache ==
    \/ \E cfg \in CacheConfigs : \E d \in BOOLEAN :
           \E t_start \in TSigmasFor(cfg, d, cfg.start_percent) :
               \E t_end \in TSigmasFor(cfg, d, cfg.end_percent) :
                   CacheInit(cfg, d, t_start, t_end)
    \/ CacheResetRuntime
    \/ \E name \in BufferNames : CacheSetBuffer(name, 1)
    \/ \E name \in BufferNames : CacheGetBuffer(name)
    \/ \E sigma \in SigmaArgs : CacheCheck(sigma)

SpecCache == Init /\ [][NextCache]_vars

-----------------------------------------------------------------------------
\* SanaSCMScheduler.  A float is an integer or NaN; the divisions made are
\* exact for the step counts used (they divide 60 and 120).

\* The vector argument: a null pointer, or a vector.
NoVector == [present |-> FALSE, arr |-> <<>>]
Vector(arr) == [present |-> TRUE, arr |-> arr]

\* max_t - (max_t / n_inference_steps) * i; the division by 0 gives an
\* infinity, which times 0 is NaN.
Linspace(max_t, n_inference_steps, i) ==
    IF n_inference_steps = 0 THEN NaN
    ELSE max_t - (max_t \div n_inference_steps) * i

\* Mutant: the vector is resized to n_inference_steps elements.
setTimestepsShort(S, n_inference_steps, given_timesteps, custom_max_timesteps, custom_intermediate_timesteps) ==
    LET s1 == [S EXCEPT !.num_inference_steps = n_inference_steps]
        max_t == IF custom_max_timesteps > 0 THEN custom_max_timesteps
                 ELSE S.params.max_timesteps_val
    IN  IF given_timesteps.present /\ given_timesteps.arr # <<>>
        THEN [sched |-> [s1 EXCEPT !.timesteps = given_timesteps.arr], threw |-> FALSE]
        ELSE IF n_inference_steps < 0 THEN [sched |-> s1, threw |-> TRUE]
        ELSE [sched |-> [s1 EXCEPT !.timesteps =
                            [i \in 1..n_inference_steps |->
                                Linspace(max_t, n_inference_steps, i - 1)]],
              threw |-> FALSE]

\* SanaSCMScheduler::set_timesteps: [sched, threw].  resize(n + 1) with
\* n + 1 negative asks for more than max_size() elements and throws
\* std::length_error, the vector as it was.
set_timesteps(S, n_inference_steps, given_timesteps, custom_max_timesteps, custom_intermediate_timesteps) ==
    LET s1 == [S EXCEPT !.num_inference_steps = n_inference_steps]
        max_t == IF custom_max_timesteps > 0 THEN custom_max_timesteps
                 ELSE S.params.max_timesteps_val
        inter_t == IF custom_intermediate_timesteps > 0
                   THEN custom_intermediate_timesteps
                   ELSE S.params.intermediate_timesteps_val
    IN  IF given_timesteps.present /\ given_timesteps.arr # <<>>
        THEN [sched |-> [s1 EXCEPT !.timesteps = given_timesteps.arr], threw |-> FALSE]
        ELSE IF n_inference_steps + 1 < 0 THEN [sched |-> s1, threw |-> TRUE]
        ELSE IF n_inference_steps = 1
        THEN [sched |-> [s1 EXCEPT !.timesteps = <<max_t, 0>>], threw |-> FALSE]
        ELSE IF n_inference_steps = 2
                /\ (custom_intermediate_timesteps > 0
                    \/ S.params.intermediate_timesteps_val > 0)
        THEN [sched |-> [s1 EXCEPT !.timesteps = <<max_t, inter_t, 0>>],
              threw |-> FALSE]
        ELSE [sched |-> [s1 EXCEPT !.timesteps =
                            [i \in 1..(n_inference_steps + 1) |->
                                Linspace(max_t, n_inference_steps, i - 1)]],
              threw |-> FALSE]

\* SanaSCMScheduler::step: the returned pair, the two times read and the
\* number of tensors created in ctx.
step(S, time_index) ==
    IF S.num_inference_steps = 0 \/ S.timesteps = <<>>
    THEN [NoSchedCall EXCEPT !.op = "step", !.time_index = time_index]
    ELSE IF time_index < 0 \/ time_index >= Len(S.timesteps)
    THEN [NoSchedCall EXCEPT !.op = "step", !.time_index = time_index]
    ELSE
        LET s_val == S.timesteps[time_index + 1]
            t_val == IF time_index + 1 < Len(S.timesteps)
                     THEN S.timesteps[time_index + 2] ELSE 0
            pred_x0 == [name |-> "pred_x0_scm",
                        value |-> "cos(s)*sample - sin(s)*model_output_flow"]
        IN  IF time_index + 1 < Len(S.timesteps)
            THEN [NoSchedCall EXCEPT
                      !.op = "step", !.time_index = time_index,
                      !.prev_sample = [name |-> "prev_sample_scm",
                                       value |-> "cos(t)*pred_x0"],
                      !.denoised = pred_x0,
                      !.s_val = s_val, !.t_val = t_val, !.created = 12]
            ELSE [NoSchedCall EXCEPT
                      !.op = "step", !.time_index = time_index,
                      !.prev_sample = [name |-> "final_denoised_sample_scm",
                                       value |-> pred_x0.value],
                      !.denoised = pred_x0,
                      !.s_val = s_val, !.t_val = t_val, !.created = 10]

\* The calls on the object.

SetTimesteps(n_inference_steps, given_timesteps, custom_max_timesteps, custom_intermediate_timesteps) ==
    LET r == set_timesteps(sched, n_inference_steps, given_timesteps,
                           custom_max_timesteps, custom_intermediate_timesteps)
    IN  /\ sched' = r.sched
        /\ sched_call' = [NoSchedCall EXCEPT !.op = "set_timesteps",
                                             !.time_index = n_inference_steps,
                                             !.threw = r.threw]
        /\ UNCHANGED <<tokVars, utf8Vars, pre_call, cacheVars>>

Step(time_index) ==
    /\ sched_call' = step(sched, time_index)
    /\ UNCHANGED <<sched, tokVars, utf8Vars, pre_call, cacheVars>>

\* SpecSched: any sequence of set_timesteps and step calls on one scheduler.

SchedParams ==
    {DefaultParams, [max_timesteps_val |-> 60, intermediate_timesteps_val |-> 0]}

GivenTimesteps == {NoVector, Vector(<<>>), Vector(<<30>>), Vector(<<50, 20>>)}

InitSched ==
    /\ InitStore
    /\ arg_s = 0 /\ arg_max_len = 0 /\ ret_len = -1
    /\ pre_call = NoPreCall
    /\ cache = NewCache /\ cache_call = NoCacheCall
    /\ sched \in {NewSched(scheduler_params) : scheduler_params \in SchedParams}
    /\ sched_call = NoSchedCall

NextSched ==
    \/ \E n \in -2..MaxSteps : \E given \in GivenTimesteps :
           \E custom_max \in {-1, 120} : \E custom_inter \in {-1, 20} :
               SetTimesteps(n, given, custom_max, custom_inter)
    \/ \E time_index \in -1..(MaxSteps + 1) : Step(time_index)

SpecSched == InitSched /\ [][NextSched]_vars

-----------------------------------------------------------------------------
\* SpecReload: load_from_gguf is called up to MaxLoads times on one store, on
\* any of the metadata sources below.

\* "a" "b" "a": a token array with a duplicate
ShortTokens == << <<97>>, <<98>>, <<97>> >>

\* a token array whose second entry cannot be read
BrokenTokens == << <<98>>, NullStr, <<97>> >>

\* "a b", an entry that cannot be read, "a b" again, "b  a" (two spaces)
MergesNull == << <<97, 32, 98>>, NullStr, <<97, 32, 98>>, <<98, 32, 32, 97>> >>

\* All ids set, and both padding keys
SpecialsPadded ==
    [unk |-> Kv("i32", 0), bos |-> Kv("i32", 1), eos |-> Kv("u32", U32(0, 2)),
     pad_a |-> Kv("u32", U32(0, 3)), pad_b |-> Kv("i32", 4)]

\* Only the second padding key
SpecialsPadAlt ==
    [unk |-> NoKv, bos |-> NoKv, eos |-> NoKv, pad_a |-> NoKv, pad_b |-> Kv("i32", 4)]

\* Keys of a value type that is not a 32-bit integer
SpecialsOtherType ==
    [unk |-> Kv("other", 0), bos |-> Kv("other", 0), eos |-> NoKv,
     pad_a |-> Kv("other", 0), pad_b |-> Kv("i32", 4)]

\* unk is the unsigned value 4294967294, bos the unsigned value 2147483648
SpecialsWrapped ==
    [unk |-> Kv("u32", U32(65535, 65534)), bos |-> Kv("u32", U32(32768, 0)), eos |-> NoKv,
     pad_a |-> NoKv, pad_b |-> NoKv]

ReloadGGUFs ==
    { Gguf(SpmPart(<<0, 0, 0, 0, 0, 1, 2, 1, 0, 0>>), SpecialsPadded),
      Gguf(BpePart(MergesPlain), SpecialsAllSet),
      Gguf(BpePart(MergesMixed), SpecialsPadAlt),
      Gguf([tokens |-> Key(ShortTokens), model |-> Model("gpt2"),
            merges |-> Key(MergesNull), scores |-> NoKey], SpecialsNone),
      Gguf([tokens |-> Key(BaseTokens), model |-> Model("gpt-2"),
            merges |-> NoKey, scores |-> Key(<<4, 4, 4>>)], SpecialsWrapped),
      Gguf([tokens |-> Key(ShortTokens), model |-> Model("bpe"),
            merges |-> NoKey, scores |-> Key(<<>>)], SpecialsNone),
      Gguf([tokens |-> Key(ShortTokens), model |-> NoModel,
            merges |-> NoKey, scores |-> NoKey], SpecialsOtherType),
      Gguf([tokens |-> Key(ShortTokens), model |-> NoModel,
            merges |-> Key(MergesPlain), scores |-> Key(<<5, 6, 7>>)], SpecialsNone),
      Gguf([tokens |-> Key(ShortTokens), model |-> Model("t5"),
            merges |-> NoKey, scores |-> Key(<<0, 0, 0, 0, 0>>)], SpecialsWrapped),
      Gguf([tokens |-> Key(GapTokens), model |-> Model("llama"),
            merges |-> NoKey, scores |-> NoKey], SpecialsAllSet),
      Gguf([tokens |-> Key(BrokenTokens), model |-> Model("bpe"),
            merges |-> Key(MergesMixed), scores |-> NoKey], SpecialsPadded),
      Gguf([tokens |-> NoKey, model |-> Model("gpt2"),
            merges |-> Key(MergesPlain), scores |-> Key(<<1, 2, 3>>)], SpecialsPadded),
      Gguf([tokens |-> Key(BigTokens), model |-> Model("bpe"),
            merges |-> NoKey, scores |-> NoKey], SpecialsOutOfRange),
      Gguf(SpmPart(<<0, 0, 0, 0, 0, 2, 1, 3, 0, 2>>), SpecialsNegativeBos),
      Gguf([tokens |-> NoKey, model |-> NoModel,
            merges |-> NoKey, scores |-> NoKey], SpecialsNone) }

LoadAgain ==
    /\ loads < MaxLoads
    /\ \E md \in ReloadGGUFs : \E score_data \in ScoreReads(vocab, md) :
           Load(md, score_data)

NextReload == LoadAgain

SpecReload == Init /\ [][NextReload]_vars

-----------------------------------------------------------------------------
\* SpecUtf8: utf8_len_char called once, on any leading byte and any max_len
\* up to MaxLenArg.

Bytes == 0..255

InitUtf8 ==
    /\ InitStore
    /\ arg_s \in Bytes
    /\ arg_max_len \in 0..MaxLenArg
    /\ ret_len = -1
    /\ InitOthers

Utf8LenChar ==
    /\ ret_len = -1
    /\ ret_len' = utf8_len_char(arg_s, arg_max_len)
    /\ UNCHANGED <<tokVars, arg_s, arg_max_len, pre_call, cacheVars, schedVars>>

NextUtf8 == Utf8LenChar

SpecUtf8 == InitUtf8 /\ [][NextUtf8]_vars

-----------------------------------------------------------------------------
\* Properties of tokenize.

\* TRUE when a special id lies in [0, len(id_to_token)).
Resolves(id) == id >= 0 /\ id < Len(id_to_token)

\* C1: a returned call's result is exactly P ++ T ++ S: T the output of
\* tokenize_spm for an SPM store and of tokenize_bpe for a BPE store, P the
\* bos id if add_bos is set and the id resolves in range, S the eos id
\* likewise.
TokenizeIsDecoratedTokens ==
    \A c \in Callers :
        calls[c].pc = "done" =>
            LET P == IF calls[c].add_bos /\ Resolves(bos_token_id)
                     THEN <<bos_token_id>> ELSE <<>>
                T == IF type = "SPM" THEN tokenize_spm(vocab, calls[c].text)
                     ELSE tokenize_bpe(vocab, calls[c].text)
                S == IF calls[c].add_eos /\ Resolves(eos_token_id)
                     THEN <<eos_token_id>> ELSE <<>>
            IN  calls[c].result = P \o T \o S

\* A BPE call has returned bos, at least two token ids, eos.
DecoratedWitness ==
    \E c \in Callers :
        /\ calls[c].pc = "done" /\ type = "BPE"
        /\ calls[c].add_bos /\ calls[c].add_eos
        /\ Len(calls[c].result) >= 4
        /\ calls[c].result[1] = bos_token_id
        /\ calls[c].result[Len(calls[c].result)] = eos_token_id

\* C2, as claimed: tokenize("", true, true) is [bos, eos] when both ids
\* resolve and [] in every other case.
EmptyTextAllOrNothing ==
    \A c \in Callers :
        (calls[c].pc = "done" /\ calls[c].text = <<>>
            /\ calls[c].add_bos /\ calls[c].add_eos) =>
            calls[c].result = IF Resolves(bos_token_id) /\ Resolves(eos_token_id)
                              THEN <<bos_token_id, eos_token_id>> ELSE <<>>

\* C2, amended: tokenize("", true, true) is the bos id if it resolves,
\* followed by the eos id if it resolves: [bos, eos], [bos], [eos] or [].
EmptyTextEachDecoration ==
    \A c \in Callers :
        (calls[c].pc = "done" /\ calls[c].text = <<>>
            /\ calls[c].add_bos /\ calls[c].add_eos) =>
            calls[c].result =
                (IF Resolves(bos_token_id) THEN <<bos_token_id>> ELSE <<>>)
                \o (IF Resolves(eos_token_id) THEN <<eos_token_id>> ELSE <<>>)

\* tokenize("", true, true) has returned one id, because only one of the two
\* special ids resolves.
EmptyTextOneIdWitness ==
    \E c \in Callers :
        /\ calls[c].pc = "done" /\ calls[c].text = <<>>
        /\ calls[c].add_bos /\ calls[c].add_eos
        /\ Resolves(bos_token_id) # Resolves(eos_token_id)
        /\ Len(calls[c].result) = 1

\* C4: every id tokenize returns lies in [0, len(id_to_token)).
IdsInRange ==
    \A c \in Callers :
        calls[c].pc = "done" =>
            \A i \in 1..Len(calls[c].result) : Resolves(calls[c].result[i])

\* The codepoints of text, as the segmentation decodes them.
Codepoints(text) == SplitChars(text, 0, <<>>)

\* C3: for a non-empty text, tokenize(text, false, false) is non-empty unless
\* every codepoint of the text is absent from token_to_id and unk_id is unset.
NonEmptyTextNonEmptyOutput ==
    \A c \in Callers :
        (calls[c].pc = "done" /\ calls[c].text # <<>>
            /\ ~calls[c].add_bos /\ ~calls[c].add_eos) =>
            \/ calls[c].result # <<>>
            \/ /\ \A k \in 1..Len(Codepoints(calls[c].text)) :
                      Codepoints(calls[c].text)[k] \notin DOMAIN token_to_id
               /\ unk_token_id = -1

\* The text form of an id sequence, an id outside id_to_token giving nothing.
RECURSIVE Detokenize(_)
Detokenize(ids) ==
    IF ids = <<>> THEN <<>>
    ELSE (IF Resolves(Head(ids)) THEN id_to_token[Head(ids) + 1] ELSE <<>>)
         \o Detokenize(Tail(ids))

\* C7: when every codepoint of text is a token, the tokens of
\* tokenize(text, false, false) concatenate to text.
RoundTrip ==
    \A c \in Callers :
        (/\ calls[c].pc = "done" /\ ~calls[c].add_bos /\ ~calls[c].add_eos
         /\ \A k \in 1..Len(Codepoints(calls[c].text)) :
                Codepoints(calls[c].text)[k] \in DOMAIN token_to_id) =>
            Detokenize(calls[c].result) = calls[c].text

\* C5: no step of a tokenize call changes the store, however the calls of the
\* concurrent callers interleave, and each call returns what tokenize returns
\* when run alone on the store.
StoreNeverMutated ==
    /\ [][loads' = loads => vocab' = vocab]_vars
    /\ [](\A c \in Callers :
            calls[c].pc = "done" =>
                calls[c].result = tokenize(vocab, calls[c].text,
                                           calls[c].add_bos, calls[c].add_eos))

\* Two calls are in progress at once, one in the SPM merge loop after a merge
\* and the other already past its first pop.
InterleavedWitness ==
    \E c1, c2 \in Callers :
        /\ c1 # c2
        /\ calls[c1].pc = "spm_merge" /\ calls[c1].merges # <<>>
        /\ calls[c1].work_queue # {}
        /\ calls[c2].pc = "spm_merge" /\ calls[c2].pops >= 1
        /\ calls[c2].work_queue # {}

\* C6: two calls with the same text and flags on the same store return the
\* same ids.
Determinism ==
    \A c1, c2 \in Callers :
        (/\ calls[c1].pc = "done" /\ calls[c2].pc = "done"
         /\ calls[c1].text = calls[c2].text
         /\ calls[c1].add_bos = calls[c2].add_bos
         /\ calls[c1].add_eos = calls[c2].add_eos) =>
            calls[c1].result = calls[c2].result

\* Two callers have returned from the same call, having popped the bigrams of
\* the queue in different orders.
SameCallWitness ==
    \E c1, c2 \in Callers :
        /\ c1 # c2
        /\ calls[c1].pc = "done" /\ calls[c2].pc = "done"
        /\ calls[c1].text = calls[c2].text
        /\ calls[c1].add_bos = calls[c2].add_bos
        /\ calls[c1].add_eos = calls[c2].add_eos
        /\ calls[c1].merges # <<>>
        /\ calls[c1].popped # calls[c2].popped

-----------------------------------------------------------------------------
\* Properties of the SPM merge loop.

\* The candidates tokenize_spm seeds its queue with for the call of caller c.
SeedOf(c) ==
    SpmSeed(vocab, calls[c].text, SpmLink(SpmSegment(calls[c].text, 0, <<>>)), {}, 0)

\* The input of caller c has four symbols, and the candidates (0,1) and (2,3)
\* are both seeded, with equal score.
OuterPairsTie(c) ==
    /\ Len(calls[c].symbols) = 4
    /\ \E x, y \in SeedOf(c) :
          /\ x.left = 0 /\ x.right = 1 /\ y.left = 2 /\ y.right = 3
          /\ x.score = y.score

\* No seeded candidate has a higher score than the candidate (0,1).
OuterPairsOnTop(c) ==
    \A x, o \in SeedOf(c) : (x.left = 0 /\ x.right = 1) => o.score <= x.score

\* C8, as claimed, the 4-symbol case: whenever (0,1) and (2,3) are candidates
\* of equal score, the first successful merge is (0,1).
TieFirstMergeIsLeftPair ==
    \A c \in Callers :
        (OuterPairsTie(c) /\ calls[c].merges # <<>>) => calls[c].merges[1] = <<0, 1>>

\* C8, amended: each pop takes a candidate of the highest score in the queue
\* and, among those of that score, of the smallest left index; and for a
\* 4-symbol input where (0,1) and (2,3) are candidates of equal score and the
\* candidate (1,2), if there is one, has no higher score, the first pop is
\* the successful merge of (0,1).
SpmCandidateOrder ==
    /\ [][\A c \in Callers :
            calls'[c].pops = calls[c].pops + 1 =>
                /\ calls'[c].popped \in calls[c].work_queue
                /\ \A o \in calls[c].work_queue :
                      /\ o.score <= calls'[c].popped.score
                      /\ o.score = calls'[c].popped.score =>
                             o.left >= calls'[c].popped.left]_vars
    /\ [](\A c \in Callers :
            (OuterPairsTie(c) /\ OuterPairsOnTop(c) /\ calls[c].pops >= 1) =>
                /\ calls[c].merges # <<>>
                /\ calls[c].merges[1] = <<0, 1>>)

\* A call on four symbols whose three seeded candidates tie has merged (0,1)
\* first and gone on.
TieWitness ==
    \E c \in Callers :
        /\ OuterPairsTie(c) /\ OuterPairsOnTop(c)
        /\ Cardinality(SeedOf(c)) = 3
        /\ \A x, y \in SeedOf(c) : x.score = y.score
        /\ calls[c].pops >= 2
        /\ calls[c].merges[1] = <<0, 1>>

-----------------------------------------------------------------------------
\* Properties of tokenize_bpe.

\* C9: outside the bootstrap path, when the pre-token at the head of the loop
\* is a key of token_to_id, the loop body appends exactly token_to_id of it,
\* runs no merge scan and moves to the next pre-token, whatever bpe_ranks
\* holds.
WholeWordShortcut ==
    [][\A c \in Callers :
          (/\ calls[c].pc = "bpe_word" /\ calls[c].words # <<>>
           /\ Head(calls[c].words) \in DOMAIN token_to_id
           /\ calls'[c] # calls[c]) =>
              /\ calls'[c].output_tokens =
                     Append(calls[c].output_tokens, token_to_id[Head(calls[c].words)])
              /\ calls'[c].pc = "bpe_word"
              /\ calls'[c].words = Tail(calls[c].words)
              /\ calls'[c].scans = calls[c].scans]_vars

\* The first pre-token of a call was a vocabulary entry whose pieces have a
\* ranked pair: one id was emitted for it and no scan has run.
WholeWordWitness ==
    \E c \in Callers :
        /\ calls[c].pc = "bpe_word"
        /\ LET all == bpe_pre_tokenize_gpt2(calls[c].text)
           IN  /\ Len(all) = Len(calls[c].words) + 1
               /\ all[1] \in DOMAIN token_to_id
               /\ BpeScan(vocab, SplitChars(all[1], 0, <<>>), 0, -1, -1).best_rank # -1
               /\ calls[c].output_tokens = <<token_to_id[all[1]]>>
        /\ calls[c].scans = 0

\* The decoding of text from offset k on: the codepoints, and the single bytes
\* that do not decode.
RECURSIVE Units(_, _)
Units(text, k) ==
    IF k >= Len(text) THEN <<>>
    ELSE IF CharLenAt(text, k) = 0
    THEN <<[str |-> <<text[k + 1]>>, valid |-> FALSE]>> \o Units(text, k + 1)
    ELSE <<[str |-> Substr(text, k, CharLenAt(text, k)), valid |-> TRUE]>>
         \o Units(text, k + CharLenAt(text, k))

\* The id of one unit: token_to_id of a codepoint that is a key, otherwise
\* unk_id if it is set.
RECURSIVE UnitIds(_)
UnitIds(us) ==
    IF us = <<>> THEN <<>>
    ELSE (IF Head(us).valid /\ Head(us).str \in DOMAIN token_to_id
          THEN <<token_to_id[Head(us).str]>>
          ELSE IF unk_token_id # -1 THEN <<unk_token_id>> ELSE <<>>)
         \o UnitIds(Tail(us))

\* C10: with no merge ranks and fewer than 256 tokens, tokenize_bpe returns,
\* for each codepoint of the text in order (a byte that does not decode
\* counting as an unmapped one), its id if it is a key and otherwise unk_id
\* if set: no pre-tokenization, no whole-word lookup.
BootstrapIsPerCodepoint ==
    \A c \in Callers :
        (calls[c].pc = "done" /\ type = "BPE"
            /\ bpe_ranks = <<>> /\ Len(id_to_token) < 256) =>
            calls[c].result = BosPrefix(vocab, calls[c].add_bos)
                              \o UnitIds(Units(calls[c].text, 0))
                              \o EosSuffix(vocab, calls[c].add_eos)

\* tokenize("ab") on a bootstrap store that has the token "ab" has returned
\* the ids of "a" and "b".
BootstrapWitness ==
    \E c \in Callers :
        /\ calls[c].pc = "done" /\ type = "BPE"
        /\ bpe_ranks = <<>> /\ Len(id_to_token) < 256
        /\ calls[c].text = <<97, 98>>
        /\ <<97, 98>> \in DOMAIN token_to_id
        /\ ~calls[c].add_bos /\ ~calls[c].add_eos
        /\ calls[c].result = <<token_to_id[<<97>>], token_to_id[<<98>>]>>

-----------------------------------------------------------------------------
\* Properties of malformed input.

\* The offsets, from k on, of the bytes of text that do not decode: the bytes
\* the loops over the text skip one at a time.
RECURSIVE InvalidOffsets(_, _)
InvalidOffsets(text, k) ==
    IF k >= Len(text) THEN {}
    ELSE IF CharLenAt(text, k) = 0 THEN {k} \cup InvalidOffsets(text, k + 1)
    ELSE InvalidOffsets(text, k + CharLenAt(text, k))

\* text without the byte at offset k
RemoveAt(text, k) == SubSeq(text, 1, k) \o SubSeq(text, k + 2, Len(text))

\* C11: for a text with an invalid byte, tokenize returns, and its output
\* differs in length by at most one from the output for the text with that
\* byte removed.
MalformedByteRobust ==
    \A c \in Callers :
        calls[c].pc = "done" =>
            \A k \in InvalidOffsets(calls[c].text, 0) :
                LET other == tokenize(vocab, RemoveAt(calls[c].text, k),
                                      calls[c].add_bos, calls[c].add_eos)
                    d == Len(calls[c].result) - Len(other)
                IN  d \in {-1, 0, 1}

-----------------------------------------------------------------------------
\* Properties of an SPM store without scores.

\* The call of caller c returned from tokenize_spm before the segmentation:
\* it built no symbol and no candidate, popped nothing, and its result is the
\* decoration around T.
ReturnedEarly(c, T) ==
    /\ calls[c].symbols = <<>> /\ calls[c].work_queue = {} /\ calls[c].pops = 0
    /\ calls[c].result = BosPrefix(vocab, calls[c].add_bos) \o T
                          \o EosSuffix(vocab, calls[c].add_eos)

\* C18: tokenize_spm returns nothing for an empty text, and exactly one
\* unk_id for a non-empty text on a store without scores, without segmenting.
EarlyReturnAlwaysUnk ==
    \A c \in Callers :
        (calls[c].pc = "done" /\ type = "SPM") =>
            /\ calls[c].text = <<>> => ReturnedEarly(c, <<>>)
            /\ (calls[c].text # <<>> /\ id_to_score = <<>>) =>
                   ReturnedEarly(c, <<unk_token_id>>)

\* C19: on an SPM store with an empty id_to_score, the output of tokenize is
\* the per-codepoint lookup of the text: for each codepoint in order its id,
\* or unk_id if it has none and unk_id is set.
CharFallbackWithoutScores ==
    \A c \in Callers :
        (calls[c].pc = "done" /\ type = "SPM" /\ id_to_score = <<>>) =>
            calls[c].result = BosPrefix(vocab, calls[c].add_bos)
                              \o UnitIds(Units(calls[c].text, 0))
                              \o EosSuffix(vocab, calls[c].add_eos)

-----------------------------------------------------------------------------
\* Properties of load_from_gguf.

\* C12: a load from metadata without the tokens key returns false and
\* changes no field of the store.
LoadWithoutTokensFails ==
    [][(loads' = loads + 1 /\ ~ctx_gguf'.tokens.present) =>
           (~load_ok' /\ vocab' = vocab)]_vars

\* A load without the tokens key, but with a BPE model key and merges, has
\* failed on a store that holds an SPM vocabulary with scores.
FailedLoadWitness ==
    /\ loads = 2 /\ ~load_ok
    /\ ~ctx_gguf.tokens.present
    /\ ctx_gguf.model.present /\ ctx_gguf.merges.present
    /\ type = "SPM" /\ id_to_score # <<>> /\ bpe_ranks = <<>>
    /\ pad_token_id # -1

\* The last load returned true.
Loaded == loads > 0 /\ load_ok

\* The metadata of the last load names a BPE model.
BpeIndicated ==
    ctx_gguf.model.present /\ ctx_gguf.model.str \in {"gpt2", "gpt-2", "bpe"}

\* C13: after a successful load, type is BPE exactly when the model key is
\* present with one of the BPE names, and SPM otherwise, whatever type was
\* before the load.
TypeFollowsModelKey ==
    Loaded => type = (IF BpeIndicated THEN "BPE" ELSE "SPM")

\* The offsets of the spaces of a merges entry.
Spaces(m) == {p \in 0..(Len(m) - 1) : m[p + 1] = 32}

\* The offset of the first space of a merges entry that has one.
FirstSpace(m) == CHOOSE p \in Spaces(m) : \A q \in Spaces(m) : p <= q

\* A merges entry splits: it has a space that is neither its first nor its
\* last character.
Splits(m) ==
    /\ m # NullStr
    /\ Spaces(m) # {}
    /\ FirstSpace(m) > 0 /\ FirstSpace(m) < Len(m) - 1

\* The (left, right) pair of a merges entry that splits.
PairOf(m) == <<SubSeq(m, 1, FirstSpace(m)), SubSeq(m, FirstSpace(m) + 2, Len(m))>>

\* C14: after a successful load of a BPE store, bpe_ranks holds exactly the
\* pairs of the merges entries that split at their first space, each with the
\* index of an entry that gives it as rank, and is empty when the merges key
\* is absent.
MergesBecomeRanks ==
    (Loaded /\ BpeIndicated) =>
        LET M == ctx_gguf.merges.arr
        IN  IF ~ctx_gguf.merges.present THEN bpe_ranks = <<>>
            ELSE /\ DOMAIN bpe_ranks = {PairOf(M[i]) : i \in {j \in 1..Len(M) : Splits(M[j])}}
                 /\ \A pr \in DOMAIN bpe_ranks :
                        /\ bpe_ranks[pr] \in 0..(Len(M) - 1)
                        /\ Splits(M[bpe_ranks[pr] + 1])
                        /\ PairOf(M[bpe_ranks[pr] + 1]) = pr

\* C15: after a successful load of a token array A, id_to_token is A, and
\* the keys of token_to_id are the strings of A, each mapped to the largest
\* index at which it occurs.
TokensBecomeMaps ==
    Loaded =>
        LET A == ctx_gguf.tokens.arr
        IN  /\ id_to_token = A
            /\ DOMAIN token_to_id = {A[i] : i \in 1..Len(A)}
            /\ \A str \in DOMAIN token_to_id :
                   /\ token_to_id[str] \in 0..(Len(A) - 1)
                   /\ A[token_to_id[str] + 1] = str
                   /\ \A i \in 1..Len(A) : A[i] = str => i - 1 <= token_to_id[str]

\* C16: after a successful load, id_to_score is empty or as long as
\* id_to_token; it is the scores array when the store is SPM and the array
\* has one score per token, and empty in every other case.
ScoresAllOrNothing ==
    Loaded =>
        /\ id_to_score = <<>> \/ Len(id_to_score) = Len(id_to_token)
        /\ id_to_score =
               (IF /\ type = "SPM" /\ ctx_gguf.scores.present
                   /\ Len(ctx_gguf.scores.arr) = Len(ctx_gguf.tokens.arr)
                THEN ctx_gguf.scores.arr ELSE <<>>)

\* A special id member holds what its key says: the value of a 32-bit integer
\* key (an unsigned value from 2^31 on is no int32_t value), -1 for an absent
\* key or one of another type.
HoldsKey(member, kv) ==
    IF kv.kind = "u32"
    THEN kv.val.hi < 32768 /\ member = kv.val.hi * 65536 + kv.val.lo
    ELSE IF kv.kind = "i32" THEN member = kv.val
    ELSE member = -1

\* C17: after a successful load, bos, eos and unk hold what their keys say,
\* and pad what the first present of its two keys says.
SpecialIdsFollowKeys ==
    Loaded =>
        /\ HoldsKey(bos_token_id, ctx_gguf.bos)
        /\ HoldsKey(eos_token_id, ctx_gguf.eos)
        /\ HoldsKey(unk_token_id, ctx_gguf.unk)
        /\ HoldsKey(pad_token_id,
                    IF ctx_gguf.pad_a.kind # "absent" THEN ctx_gguf.pad_a
                    ELSE ctx_gguf.pad_b)

-----------------------------------------------------------------------------
\* Properties of utf8_len_char.

\* The length the high bits of a leading byte imply: 1 for 0xxxxxxx, 2 for
\* 110xxxxx, 3 for 1110xxxx, 4 for 11110xxx, and 0 for any other byte.
ImpliedLen(c) ==
    IF c \in 0..127 THEN 1
    ELSE IF c \in 192..223 THEN 2
    ELSE IF c \in 224..239 THEN 3
    ELSE IF c \in 240..247 THEN 4
    ELSE 0

\* C20: utf8_len_char returns a value in 0..4 that is at most max_len: the
\* length the leading byte implies when max_len is at least that length, and
\* 0 when the byte implies none, when max_len is 0, or when the implied length
\* exceeds max_len.
Utf8LenCharContract ==
    ret_len # -1 =>
        /\ ret_len \in 0..4
        /\ ret_len <= arg_max_len
        /\ ret_len = (IF \/ arg_max_len = 0
                         \/ ImpliedLen(arg_s) = 0
                         \/ ImpliedLen(arg_s) > arg_max_len
                      THEN 0 ELSE ImpliedLen(arg_s))

\* utf8_len_char has returned 0 for the leading byte of a three-byte
\* sequence with two bytes left.
Utf8TruncatedWitness ==
    /\ arg_s \in 224..239 /\ arg_max_len = 2
    /\ ret_len = 0

-----------------------------------------------------------------------------
\* Properties of the SPM merge loop, one iteration at a time.

\* TRUE when both symbols of the bigram have length > 0 in symbols and their
\* lengths add up to the size the bigram recorded.
Fresh(symbols, bigram) ==
    /\ symbols[bigram.left + 1].n > 0
    /\ symbols[bigram.right + 1].n > 0
    /\ symbols[bigram.left + 1].n + symbols[bigram.right + 1].n = bigram.size

\* C21: a popped candidate is applied exactly when both its symbols still
\* have length > 0 and their lengths add up to the recorded size, and then
\* its two symbols are adjacent (left.next = right); any other popped
\* candidate is discarded and the symbol array is left as it was.
StalenessCheck ==
    [][\A c \in Callers :
          calls'[c].pops = calls[c].pops + 1 =>
              LET bigram == calls'[c].popped
              IN  IF Fresh(calls[c].symbols, bigram)
                  THEN /\ calls[c].symbols[bigram.left + 1].next = bigram.right
                       /\ calls'[c].merges =
                              Append(calls[c].merges, <<bigram.left, bigram.right>>)
                       /\ calls'[c].symbols = SpmMerge(calls[c].symbols, bigram)
                  ELSE /\ calls'[c].symbols = calls[c].symbols
                       /\ calls'[c].merges = calls[c].merges]_vars

\* A call has merged a pair and has then discarded a candidate whose two
\* symbols both still have length > 0: only the recorded size gives it away.
StaleDiscardedWitness ==
    \E c \in Callers :
        /\ calls[c].pc = "spm_merge"
        /\ calls[c].merges # <<>>
        /\ calls[c].pops > Len(calls[c].merges)
        /\ calls[c].popped # NoBigram
        /\ calls[c].symbols[calls[c].popped.left + 1].n > 0
        /\ calls[c].symbols[calls[c].popped.right + 1].n > 0
        /\ ~Fresh(calls[c].symbols, calls[c].popped)

\* The indices visited from index i by following next, at most fuel of them.
RECURSIVE Chain(_, _, _)
Chain(symbols, i, fuel) ==
    IF i = -1 \/ fuel = 0 THEN <<>>
    ELSE <<i>> \o Chain(symbols, symbols[i + 1].next, fuel - 1)

\* The sum of the lengths of the symbols from position k on.
RECURSIVE SumLen(_, _)
SumLen(symbols, k) ==
    IF k > Len(symbols) THEN 0 ELSE symbols[k].n + SumLen(symbols, k + 1)

\* C22: at every point of the merge loop the symbols reached from index 0
\* along next are exactly those of length > 0, in increasing index order;
\* the successor of each has its prev pointing back at it; symbol 0 has
\* length > 0; and the lengths of the symbols add up to what they added up to
\* after segmentation.
LinkedListInvariant ==
    \A c \in Callers :
        calls[c].pc = "spm_merge" =>
            LET symbols == calls[c].symbols
                chain == Chain(symbols, 0, Len(symbols) + 1)
            IN  /\ Len(chain) <= Len(symbols)
                /\ {chain[k] : k \in 1..Len(chain)}
                       = {i \in 0..(Len(symbols) - 1) : symbols[i + 1].n > 0}
                /\ \A k \in 1..(Len(chain) - 1) : chain[k] < chain[k + 1]
                /\ \A k \in 1..Len(chain) :
                       symbols[chain[k] + 1].next # -1 =>
                           symbols[symbols[chain[k] + 1].next + 1].prev = chain[k]
                /\ symbols[1].n > 0
                /\ SumLen(symbols, 1)
                       = SumLen(SpmLink(SpmSegment(calls[c].text, 0, <<>>)), 1)

\* After two merges two symbols survive, the second one the successor of
\* symbol 0 and not its neighbour in the array.
RelinkedWitness ==
    \E c \in Callers :
        /\ calls[c].pc = "spm_merge"
        /\ Len(calls[c].merges) >= 2
        /\ calls[c].symbols[1].next > 1

\* The symbols of text as segmentation leaves them.
Segmented(text) == SpmLink(SpmSegment(text, 0, <<>>))

\* The text span of the symbol at index i of text's segmentation.
SpanOf(text, i) == SymText(text, Segmented(text)[i + 1], Segmented(text)[i + 1].n)

\* The concatenation of the text spans of the segmented symbols i..j.
SpansOf(text, i, j) == Concat([k \in 1..(j - i + 1) |-> SpanOf(text, i + k - 1)])

\* The index of the last segmented symbol the surviving symbol i has absorbed:
\* the one before the next symbol of length > 0, or the last of all.
LastAbsorbed(symbols, i) ==
    LET later == {j \in (i + 1)..(Len(symbols) - 1) : symbols[j + 1].n > 0}
    IN  IF later = {} THEN Len(symbols) - 1
        ELSE (CHOOSE j \in later : \A o \in later : j <= o) - 1

\* The candidates seeding would push if each pair (i, i + 1) were looked up
\* by the concatenation of the two text spans.
SeedsBySpans(V, text) ==
    {[left |-> i, right |-> i + 1,
      score |-> V.id_to_score[V.token_to_id[SpansOf(text, i, i + 1)] + 1],
      size |-> Len(SpansOf(text, i, i + 1))] :
        i \in {k \in 0..(Len(Segmented(text)) - 2) :
                  /\ SpansOf(text, k, k + 1) \in DOMAIN V.token_to_id
                  /\ UintLess(V.token_to_id[SpansOf(text, k, k + 1)],
                              Len(V.id_to_score))}}

\* C23, as claimed: the candidates in the queue after seeding are those of
\* the adjacent pairs whose two text spans, concatenated, are a vocabulary
\* entry with a score; and at every point of the merge loop the text of a
\* symbol of length > 0 is the concatenation of the text spans of the
\* codepoints it has absorbed, skipped bytes or not.
PieceIsSpanConcat ==
    \A c \in Callers :
        calls[c].pc = "spm_merge" =>
            /\ calls[c].pops = 0 =>
                   calls[c].work_queue = SeedsBySpans(vocab, calls[c].text)
            /\ \A i \in 0..(Len(calls[c].symbols) - 1) :
                   calls[c].symbols[i + 1].n > 0 =>
                       SymText(calls[c].text, calls[c].symbols[i + 1],
                               calls[c].symbols[i + 1].n)
                           = SpansOf(calls[c].text, i,
                                     LastAbsorbed(calls[c].symbols, i))

-----------------------------------------------------------------------------
\* The reference greedy procedure: no queue, a rescan of all adjacent pairs at
\* every step.

\* The adjacent pairs of symbols of length > 0 whose concatenated text is a
\* vocabulary entry with a score, each with that score.
GreedyPairs(V, text, symbols) ==
    {[left |-> i, right |-> symbols[i + 1].next,
      score |-> V.id_to_score[V.token_to_id[
                    SpansOf(text, i, LastAbsorbed(symbols, symbols[i + 1].next))] + 1]] :
        i \in {k \in 0..(Len(symbols) - 1) :
                  /\ symbols[k + 1].n > 0
                  /\ symbols[k + 1].next # -1
                  /\ LET piece == SpansOf(text, k,
                                          LastAbsorbed(symbols, symbols[k + 1].next))
                     IN  /\ piece \in DOMAIN V.token_to_id
                         /\ UintLess(V.token_to_id[piece], Len(V.id_to_score))}}

\* The pair the reference merges next: the highest score, the smallest left
\* index among those of that score.
GreedyBest(pairs) ==
    CHOOSE b \in pairs :
        \A o \in pairs : o.score < b.score \/ (o.score = b.score /\ o.left >= b.left)

\* The reference run to the end: [symbols, merges].
RECURSIVE GreedyRun(_, _, _, _)
GreedyRun(V, text, symbols, merges) ==
    LET pairs == GreedyPairs(V, text, symbols)
    IN  IF pairs = {} THEN [symbols |-> symbols, merges |-> merges]
        ELSE LET b == GreedyBest(pairs)
             IN  GreedyRun(V, text, SpmMerge(symbols, b),
                           Append(merges, <<b.left, b.right>>))

\* C24, as claimed: the merges the queue-driven loop has made so far are the
\* first merges of the reference procedure on the same store and text, and
\* when the queue is empty the merges and the symbols are those the reference
\* ends with.
QueueLoopIsGreedy ==
    \A c \in Callers :
        calls[c].pc = "spm_merge" =>
            LET ref == GreedyRun(vocab, calls[c].text, Segmented(calls[c].text), <<>>)
            IN  /\ Len(calls[c].merges) <= Len(ref.merges)
                /\ calls[c].merges = SubSeq(ref.merges, 1, Len(calls[c].merges))
                /\ calls[c].work_queue = {} =>
                       /\ calls[c].merges = ref.merges
                       /\ calls[c].symbols = ref.symbols

-----------------------------------------------------------------------------
\* Termination of the SPM merge loop.

\* C25: in a call that segmented its text into n >= 1 symbols there are at
\* most n - 1 successful merges, and the pops made plus the candidates still
\* queued never exceed 3(n - 1); a discarded candidate pushes nothing and a
\* successful merge pushes at most two candidates; and a call inside the
\* merge loop reaches its return, with the queue empty.
SpmLoopTerminates ==
    /\ [](\A c \in Callers :
            Len(calls[c].symbols) >= 1 =>
                /\ Len(calls[c].merges) <= Len(calls[c].symbols) - 1
                /\ calls[c].pops + Cardinality(calls[c].work_queue)
                       <= 3 * (Len(calls[c].symbols) - 1))
    /\ [][\A c \in Callers :
            calls'[c].pops = calls[c].pops + 1 =>
                Cardinality(calls'[c].work_queue)
                    <= Cardinality(calls[c].work_queue) - 1
                       + (IF calls'[c].merges # calls[c].merges THEN 2 ELSE 0)]_vars
    /\ (calls[1].pc = "spm_merge")
           ~> (calls[1].pc = "done" /\ calls[1].work_queue = {})

\* A call on three symbols has returned after two merges and three pops.
AllMergedWitness ==
    /\ calls[1].pc = "done"
    /\ Len(calls[1].symbols) = 3
    /\ Len(calls[1].merges) = 2
    /\ calls[1].pops = 3
    /\ calls[1].work_queue = {}

-----------------------------------------------------------------------------
\* Properties of the BPE merge loop.

\* The positions j (from 1) of the adjacent pairs of pieces that bpe_ranks
\* holds.
RankedPairs(pieces) ==
    {j \in 1..(Len(pieces) - 1) : <<pieces[j], pieces[j + 1]>> \in DOMAIN bpe_ranks}

\* The leftmost position among the ranked pairs of the lowest rank.
BestPair(pieces) ==
    CHOOSE j \in RankedPairs(pieces) :
        \A o \in RankedPairs(pieces) :
            \/ bpe_ranks[<<pieces[j], pieces[j + 1]>>] < bpe_ranks[<<pieces[o], pieces[o + 1]>>]
            \/ /\ bpe_ranks[<<pieces[j], pieces[j + 1]>>] = bpe_ranks[<<pieces[o], pieces[o + 1]>>]
               /\ j <= o

\* The pieces the current pre-token of caller c was split into.
InitialPieces(c) == SplitChars(Head(calls[c].words), 0, <<>>)

\* C26: an iteration of the while loop merges the leftmost adjacent pair of
\* the lowest rank and nothing else, so that the list is one piece shorter
\* and its concatenation the same, or, when no adjacent pair is ranked,
\* leaves the list alone and ends the loop; the pieces always concatenate to
\* the pre-token's codepoints, and the iterations made on a pre-token number
\* at most its pieces - 1.
BpeMergesLowestRank ==
    /\ [][\A c \in Callers :
            (calls[c].pc = "bpe_merge" /\ calls'[c].scans = calls[c].scans + 1) =>
                LET pieces == calls[c].sub_tokens
                    after == calls'[c].sub_tokens
                IN  IF RankedPairs(pieces) = {}
                    THEN /\ after = pieces
                         /\ ~calls'[c].merged_in_iteration
                    ELSE LET j == BestPair(pieces)
                         IN  /\ after = SubSeq(pieces, 1, j - 1)
                                          \o <<pieces[j] \o pieces[j + 1]>>
                                          \o SubSeq(pieces, j + 2, Len(pieces))
                             /\ Len(after) = Len(pieces) - 1
                             /\ Concat(after) = Concat(pieces)
                             /\ calls'[c].merged_in_iteration]_vars
    /\ [](\A c \in Callers :
            calls[c].pc = "bpe_merge" =>
                /\ Len(calls[c].sub_tokens) >= 1
                /\ Concat(calls[c].sub_tokens) = Concat(InitialPieces(c))
                /\ (Len(InitialPieces(c)) - Len(calls[c].sub_tokens))
                       + (IF calls[c].merged_in_iteration THEN 0 ELSE 1)
                       <= Len(InitialPieces(c)) - 1)

\* In a pre-token of four pieces the pair of rank 0 occurred at the first
\* and at the third position, and the first one has been merged.
LeftmostRankZeroWitness ==
    \E c \in Callers :
        /\ calls[c].pc = "bpe_merge"
        /\ Len(InitialPieces(c)) = 4
        /\ <<InitialPieces(c)[1], InitialPieces(c)[2]>> \in DOMAIN bpe_ranks
        /\ bpe_ranks[<<InitialPieces(c)[1], InitialPieces(c)[2]>>] = 0
        /\ InitialPieces(c)[3] = InitialPieces(c)[1]
        /\ InitialPieces(c)[4] = InitialPieces(c)[2]
        /\ calls[c].sub_tokens = <<InitialPieces(c)[1] \o InitialPieces(c)[2],
                                   InitialPieces(c)[3], InitialPieces(c)[4]>>

-----------------------------------------------------------------------------
\* Properties of bpe_pre_tokenize_gpt2.

\* TRUE when word is one of the contraction suffixes.
IsContraction(word) == \E k \in 1..Len(Contractions) : word = Contractions[k]

\* TRUE when word is a run: all its bytes letters, all digits, all
\* whitespace, or all neither of these.
IsRun(word) ==
    \E cls \in {"alpha", "digit", "other", "space"} :
        \A k \in 1..Len(word) : ByteClass(word[k]) = cls

\* The offsets at which a pre-token of words ends and the next one begins.
Boundaries(words) ==
    {Len(Concat(SubSeq(words, 1, k))) : k \in 1..(Len(words) - 1)}

\* The offsets of text where a well-formed multi-byte codepoint starts: a
\* leading byte of a sequence of n >= 2 bytes followed by n - 1 continuation
\* bytes.
MultiByteStarts(text) ==
    {k \in 0..(Len(text) - 1) :
        /\ ImpliedLen(text[k + 1]) >= 2
        /\ k + ImpliedLen(text[k + 1]) <= Len(text)
        /\ \A j \in 1..(ImpliedLen(text[k + 1]) - 1) : text[k + 1 + j] \in 128..191}

\* C27: for a non-empty text the pre-tokens are non-empty and concatenate, in
\* order, to the text; each is a contraction suffix or a run of letters, of
\* digits, of whitespace or of other bytes; and no pre-token ends inside a
\* multi-byte codepoint.
PreTokensCoverText ==
    (pre_call.called /\ pre_call.text # <<>>) =>
        /\ pre_call.words # <<>>
        /\ \A k \in 1..Len(pre_call.words) :
               /\ pre_call.words[k] # <<>>
               /\ IsContraction(pre_call.words[k]) \/ IsRun(pre_call.words[k])
        /\ Concat(pre_call.words) = pre_call.text
        /\ \A k \in MultiByteStarts(pre_call.text) :
               \A b \in Boundaries(pre_call.words) :
                   ~(k < b /\ b < k + ImpliedLen(pre_call.text[k + 1]))

\* A text of a contraction suffix and a two-byte codepoint has been split
\* into the two.
ContractionAndCodepointWitness ==
    /\ pre_call.called
    /\ Len(pre_call.words) = 2
    /\ IsContraction(pre_call.words[1])
    /\ pre_call.words[2] = <<195, 169>>

-----------------------------------------------------------------------------
\* Properties of the mapping of the final pieces to ids.

\* The ids of a sequence of final pieces: for each piece in order its own id
\* when it is a key of token_to_id, and otherwise, for each of its codepoints
\* in order, the codepoint's id when it is a key, unk_id when it is not and
\* unk_id is set, and nothing when unk_id is unset.
RECURSIVE FinalIds(_)
FinalIds(pieces) ==
    IF pieces = <<>> THEN <<>>
    ELSE (IF Head(pieces) \in DOMAIN token_to_id
          THEN <<token_to_id[Head(pieces)]>>
          ELSE UnitIds(Units(Head(pieces), 0)))
         \o FinalIds(Tail(pieces))

\* The final pieces of the SPM call of caller c: the texts of the symbols of
\* length > 0 met from symbol 0 along next.
SpmFinalPieces(c) ==
    LET chain == Chain(calls[c].symbols, 0, Len(calls[c].symbols) + 1)
        alive == SelectSeq(chain, LAMBDA i : calls[c].symbols[i + 1].n > 0)
    IN  [k \in 1..Len(alive) |->
            SymText(calls[c].text, calls[c].symbols[alive[k] + 1],
                    calls[c].symbols[alive[k] + 1].n)]

\* C28: when the SPM merge loop has ended, tokenize_spm returns the ids of
\* its final pieces; when the BPE while loop has ended for a pre-token,
\* tokenize_bpe appends the ids of that pre-token's final pieces; in both the
\* ids of the pieces are those of FinalIds.
FinalMappingHandlesUnknown ==
    [][\A c \in Callers :
          /\ (calls[c].pc = "spm_merge" /\ calls'[c].pc = "done") =>
                 calls'[c].result = calls[c].output
                                    \o FinalIds(SpmFinalPieces(c))
                                    \o EosSuffix(vocab, calls[c].add_eos)
          /\ (calls[c].pc = "bpe_merge" /\ calls'[c].pc = "bpe_word") =>
                 calls'[c].output_tokens = calls[c].output_tokens
                                           \o FinalIds(calls[c].sub_tokens)]_vars

\* With unk_id unset, tokenize_bpe has merged "a" and "b" into the piece "ab",
\* which is no vocabulary entry, and neither is "a": the result is the id of
\* "b" alone.
UnmappedSkippedWitness ==
    \E c \in Callers :
        /\ calls[c].pc = "done" /\ type = "BPE"
        /\ unk_token_id = -1
        /\ calls[c].text = <<97, 98>>
        /\ calls[c].scans >= 1
        /\ <<97, 98>> \notin DOMAIN token_to_id
        /\ <<97>> \notin DOMAIN token_to_id
        /\ <<98>> \in DOMAIN token_to_id
        /\ ~calls[c].add_bos /\ ~calls[c].add_eos
        /\ calls[c].result = <<token_to_id[<<98>>]>>

-----------------------------------------------------------------------------
\* Properties of ChromaCacheState.

\* max(config.interval, 0)
HitLimit == IF cache.config.interval > 0 THEN cache.config.interval ELSE 0

\* C29: after any sequence of calls the counter is between 0 and
\* max(config.interval, 0), and so is the number of check_cache calls that
\* returned true in a row (none returning false, no init and no
\* reset_runtime between them); a check_cache call made with the counter at
\* config.interval or above returns false; one that returns true was made
\* with the cache enabled, a "hidden_states" buffer present and
\* end_sigma <= sigma <= start_sigma, and adds one to the counter; and after
\* one that returns false the counter is 0.
CacheHitsBounded ==
    /\ [](/\ 0 <= cache.consecutive_cache_hits
           /\ cache.consecutive_cache_hits <= HitLimit
           /\ cache_call.run <= HitLimit
           /\ (cache_call.op = "check_cache" /\ ~cache_call.ret) =>
                  cache.consecutive_cache_hits = 0)
    /\ [][(cache_call'.op = "check_cache" /\ cacheVars' # cacheVars) =>
            /\ cache.consecutive_cache_hits >= cache.config.interval =>
                   /\ ~cache_call'.ret
                   /\ cache'.consecutive_cache_hits = 0
            /\ cache_call'.ret =>
                   /\ enabled(cache)
                   /\ "hidden_states" \in DOMAIN cache.buffers
                   /\ FloatLeq(cache.end_sigma, cache_call'.sigma)
                   /\ FloatLeq(cache_call'.sigma, cache.start_sigma)
                   /\ cache'.consecutive_cache_hits = cache.consecutive_cache_hits + 1
            /\ ~cache_call'.ret => cache'.consecutive_cache_hits = 0]_vars

\* With interval 2, the cache enabled, the buffer present and sigma inside
\* the window, check_cache has returned false: the call after two hits.
HitLimitReachedWitness ==
    /\ cache_call.op = "check_cache" /\ ~cache_call.ret
    /\ enabled(cache) /\ cache.config.interval = 2
    /\ "hidden_states" \in DOMAIN cache.buffers
    /\ FloatLeq(cache.end_sigma, cache_call.sigma)
    /\ FloatLeq(cache_call.sigma, cache.start_sigma)
    /\ cache.consecutive_cache_hits = 0

-----------------------------------------------------------------------------
\* C30: step returns the null pair and creates no tensor when
\* num_inference_steps is 0, timesteps is empty or time_index is outside
\* [0, len(timesteps)); otherwise the current time is timesteps[time_index]
\* and the next time is timesteps[time_index + 1], or 0 with prev_sample a
\* copy of the denoised prediction when time_index is the last index; and
\* set_timesteps(n) with n >= 1 and no given timesteps leaves n + 1 timesteps.

Usable(S, time_index) ==
    /\ S.num_inference_steps # 0
    /\ S.timesteps # <<>>
    /\ time_index \in 0..(Len(S.timesteps) - 1)

StepReads(S, time_index, c) ==
    IF ~Usable(S, time_index)
    THEN /\ c.prev_sample = NullTensor
         /\ c.denoised = NullTensor
         /\ c.created = 0
    ELSE /\ c.denoised.name = "pred_x0_scm"
         /\ c.s_val = S.timesteps[time_index + 1]
         /\ IF time_index = Len(S.timesteps) - 1
            THEN /\ c.t_val = 0
                 /\ c.prev_sample.name = "final_denoised_sample_scm"
                 /\ c.prev_sample.value = c.denoised.value
            ELSE /\ c.t_val = S.timesteps[time_index + 2]
                 /\ c.prev_sample.name = "prev_sample_scm"
                 /\ c.prev_sample.value = "cos(t)*pred_x0"

StepGuardsSchedule ==
    [][/\ \A time_index \in -1..(MaxSteps + 1) :
              Step(time_index) => StepReads(sched, time_index, sched_call')
       /\ \A n \in 1..MaxSteps : \A custom_max \in {-1, 120} :
              \A custom_inter \in {-1, 20} :
                  SetTimesteps(n, NoVector, custom_max, custom_inter)
                      => Len(sched'.timesteps) = n + 1]_vars

\* A step at the last index of a schedule that set_timesteps built for
\* n >= 1 steps, and which an earlier call did not leave behind.
LastIndexStepWitness ==
    /\ sched_call.op = "step"
    /\ sched.num_inference_steps >= 2
    /\ Len(sched.timesteps) = sched.num_inference_steps + 1
    /\ sched_call.time_index = sched.num_inference_steps
    /\ sched_call.prev_sample.name = "final_denoised_sample_scm"
    /\ sched_call.t_val = 0
    /\ sched_call.created = 10

====
